---- MODULE Spec2Model ----
(***************************************************************************)
(* A model of the 7otion ORM core: the write queue and the transaction     *)
(* manager of ORM (orm.js), the hybrid result cache (ORM.cachedSelect and   *)
(* MemoryResultCache), and the batched eager loaders of the relationship    *)
(* descriptors.  Each subsystem has its own specification over the shared   *)
(* variables; a subsystem that a specification does not exercise stays in   *)
(* its constructed state.                                                   *)
(***************************************************************************)
EXTENDS Integers, Sequences, FiniteSets, TLC

\* ------------------------------------------------------------------ bounds
NumOps == 3
MaxBodySteps == 2
MaxTopCalls == 2
MaxDepth == 2
MaxNested == 2
MaxWrites == 2
CacheMaxSize == 2
MaxId == 2
MaxVal == 2
MaxReads == 2
MaxCacheWrites == 1
MaxParents == 2
MaxKey == 2
MaxLoads == 3
MaxAccesses == 3
MaxRefreshes == 2
MaxClears == 1
MaxPaths == 2
MaxPathLen == 3
MaxValue == 2
MaxSets == 1
MaxRecCalls == 2
MaxTTL == 1
MaxClock == 3
MaxCacheOps == 4
MaxFinds == 2
MaxWheres == 2
MaxInValues == 2

\* ------------------------------------------------------------------ state
VARIABLES
    enableWriteQueue,   \* ORM.enableWriteQueue (config)
    writeQueue,         \* ORM.writeQueue: 0 = Promise.resolve(), k = result_k.catch(...)
    submitted,          \* number of queueWrite calls made so far (W1..Wn in order)
    opChain,            \* opChain[k]: the writeQueue promise W_k's then() hangs on
    opState,            \* state of `result` (the promise returned to the caller of W_k)
    opValue,            \* settlement of `result`: <<"ok", k>> or <<"err", j>>
    opSteps,            \* how many steps the body of W_k has taken so far
    startOrder,         \* the bodies in the order they started executing
    inTransactionFlag,  \* TauriAdapter.inTransactionFlag
    dbRows,             \* the rows the backend connection currently holds
    dbSnapshot,         \* the backend's state at its last BEGIN (what ROLLBACK restores)
    txStack,            \* txStack[t]: the transaction() calls in progress, outermost first
    txCalls,            \* number of top-level transaction() calls made so far
    txNested,           \* nested transaction() calls made in the current nest
    txWrites,           \* record writes made in the current nest
    txLog,              \* adapter boundary calls and callback starts of the current nest
    txDone,             \* the transaction() calls that have settled, oldest first
    hasCacheAdapter,    \* ORM.resultCacheAdapter is configured
    disableResultCache, \* ORM.disableResultCache
    cache,              \* MemoryResultCache.cache, entries in Map insertion order
    tagMap,             \* MemoryResultCache.tagMap: tag (table) -> set of cache keys
    rowCache,           \* MemoryResultCache.rowCache: table -> id -> row
    clock,              \* Date.now()
    defaultTTL,         \* MemoryResultCache.defaultTTL (0: none)
    dbTable,            \* the backend's tables: table -> id -> value (0: no such row)
    reads,              \* reads[r]: the cachedSelect call reader r is in, or made last
    write,              \* the record write in flight, if any
    lastDone,           \* the last completed cached read, while nothing was written since
    quietWrite,         \* tables written, no read overlapping the write, and not read since
    readsMade,          \* number of cachedSelect calls made so far
    writesMade,         \* number of record writes started so far
    parents,            \* the models handed to eagerLoadFor
    relDb,              \* the related models' tables, rows in backend order
    pivotDb,            \* the pivot table's rows
    eager,              \* the eagerLoadFor call in progress, or made last
    lazyGot,            \* the last MorphTo.get(parent) call and what it returned
    lazyOne,            \* the last HasOne.get(parent) call and what it returned
    slot,               \* the private slot of the relationship (0: undefined, n: set by load n)
    loadingKey,         \* the record's _loading_ key of the relationship: a promise, or none
    loads,              \* the loadRelationship calls made so far
    frames,             \* the load() calls suspended at their await
    refreshQ,           \* the refresh() calls awaiting the fresh row: was the relationship loaded?
    lastAccess,         \* the last getWithSuspense or load call and the state it found
    lastReturn,         \* the last refresh() or update() that settled
    accessesMade,       \* number of accesses made so far
    refreshesMade,      \* number of refresh() calls made so far
    clearsMade,         \* number of updates persisted so far
    withList,           \* the names given to with(), as dot-paths
    relTable,           \* the relationship table (names) of each model class
    related,            \* does eager loading on models of the class yield any related model?
    rootCount,          \* number of rows the builder's select returns
    withQ,              \* the get() call in progress, or made
    hasSlug,            \* the model class declares a slug property
    timestamps,         \* config.timestamps
    queueOn,            \* ORM.enableWriteQueue, for the record's writes
    recPc,              \* how the record came to be: none yet, new, or hydrated
    attrs,              \* the record's _attributes
    orig,               \* the record's _original
    exists,             \* the record's _exists
    recOps,             \* the record's write calls that reached queueWrite, oldest first
    sentStmts,          \* the statements handed to the adapter, oldest first
    invalidations,      \* number of invalidateResultCache calls made
    lastCall,           \* the last call made on the record and its outcome
    callsMade,          \* number of save, update and delete calls made so far
    setsMade,           \* number of attribute assignments made so far
    storage,            \* which cache adapter the direct calls are made on
    lastOp,             \* the last direct call on the cache and what it did
    touch,              \* per cache key, when it was last set or successfully read
    stored,             \* per entry, the instant and TTL it was last stored with
    opsMade,            \* number of direct calls made on the cache so far
    rowMethods,         \* does the cache adapter implement getRowById and setRowById?
    cacheOn,            \* is a result cache configured and enabled, for find()?
    dbRow,              \* the backend's row for the record's primary key (none: no row)
    findCache,          \* the query-level cache entry of find(id), if any
    lastFind,           \* what the last find(id) returned
    findsMade,         \* number of find(id) calls made so far
    segments,           \* number of names in the dot-path given to with()
    rootModels,         \* the models get() hydrated, by id
    nested,             \* where the nested loader stands
    loadCalls,          \* the eagerLoadFor calls made, in order
    slotsOf,           \* per tier, the relationship slot of each model it was loaded on
    query,              \* the Query Structure the builder holds
    compiled,          \* the Compiled Statement the dialect returned, if any
    heap,               \* the objects allocated so far, by reference
    backendAnswer,      \* the rows the backend answers the SELECT with
    cacheEntry,         \* the array the query-level cache holds for the SELECT, if any
    returned,           \* the results get() returned, in order
    awaiting,           \* number of get() calls awaiting the adapter
    getsMade,           \* number of get() calls made so far
    assignsMade         \* number of attribute assignments made so far

qvars == <<enableWriteQueue, writeQueue, submitted, opChain, opState, opValue,
           opSteps, startOrder>>

tvars == <<inTransactionFlag, dbRows, dbSnapshot, txStack, txCalls, txNested,
           txWrites, txLog, txDone>>

cvars == <<hasCacheAdapter, disableResultCache, cache, tagMap, rowCache, clock,
           defaultTTL, dbTable, reads, write, lastDone, quietWrite, readsMade,
           writesMade>>

evars == <<parents, relDb, pivotDb, eager, lazyGot, lazyOne>>

lvars == <<slot, loadingKey, loads, frames, refreshQ, lastAccess, lastReturn,
           accessesMade, refreshesMade, clearsMade>>

wvars == <<withList, relTable, related, rootCount, withQ>>

rvars == <<hasSlug, timestamps, queueOn, recPc, attrs, orig, exists, recOps,
           sentStmts, invalidations, lastCall, callsMade, setsMade>>

hvars == <<storage, lastOp, touch, stored, opsMade>>

avars == <<rowMethods>>

fvars == <<cacheOn, dbRow, findCache, lastFind, findsMade>>

nvars == <<segments, rootModels, nested, loadCalls, slotsOf>>

dvars == <<query, compiled>>

gvars == <<heap, backendAnswer, cacheEntry, returned, awaiting, getsMade, assignsMade>>

vars == <<qvars, tvars, cvars, evars, lvars, wvars, rvars, hvars, avars, fvars, nvars, dvars, gvars>>

Ops == 1..NumOps
None == <<"none">>
Settled == {"fulfilled", "rejected"}

\* ------------------------------------------------------------ write queue
\* `result.catch(() => { })`: settles when result settles, and always fulfils.
QueueContinuationNoCatch(st) ==
    IF st \in Settled THEN st ELSE "pending"

QueueContinuation(st) ==
    IF st \in Settled THEN "fulfilled" ELSE "pending"

\* `this.writeQueue = result.catch(...)`: the chain's new tail is W_k's.
NextWriteQueueKept(k, wq) == wq

NextWriteQueue(k, wq) == k

\* State of the promise a writeQueue value denotes.
ChainState(w) ==
    IF w = 0 THEN "fulfilled" ELSE QueueContinuation(opState[w])

\* Rejection reason of the promise a writeQueue value denotes (if rejected).
ChainReason(w) == opValue[w]

QInit ==
    /\ enableWriteQueue \in BOOLEAN
    /\ writeQueue = 0
    /\ submitted = 0
    /\ opChain = [k \in Ops |-> 0]
    /\ opState = [k \in Ops |-> "unsubmitted"]
    /\ opValue = [k \in Ops |-> None]
    /\ opSteps = [k \in Ops |-> 0]
    /\ startOrder = << >>

\* queueWrite(operation): with the queue off the body starts at once; with it
\* on, the body is chained behind this.writeQueue and the tail is replaced.
QueueWrite ==
    /\ submitted < NumOps
    /\ LET k == submitted + 1 IN
       /\ submitted' = k
       /\ IF ~enableWriteQueue
          THEN /\ opState' = [opState EXCEPT ![k] = "running"]
               /\ startOrder' = Append(startOrder, k)
               /\ UNCHANGED <<writeQueue, opChain>>
          ELSE /\ opState' = [opState EXCEPT ![k] = "waiting"]
               /\ opChain' = [opChain EXCEPT ![k] = writeQueue]
               /\ writeQueue' = NextWriteQueue(k, writeQueue)
               /\ UNCHANGED startOrder
    /\ UNCHANGED <<enableWriteQueue, opValue, opSteps>>

\* The reaction of `this.writeQueue.then(() => operation())`: once the chained
\* promise has settled, a fulfilment starts the body; a rejection would pass
\* through to `result` without running the body.
ThenReaction(k) ==
    /\ opState[k] = "waiting"
    /\ ChainState(opChain[k]) \in Settled
    /\ IF ChainState(opChain[k]) = "fulfilled"
       THEN /\ opState' = [opState EXCEPT ![k] = "running"]
            /\ startOrder' = Append(startOrder, k)
            /\ UNCHANGED opValue
       ELSE /\ opState' = [opState EXCEPT ![k] = "rejected"]
            /\ opValue' = [opValue EXCEPT ![k] = ChainReason(opChain[k])]
            /\ UNCHANGED startOrder
    /\ UNCHANGED <<enableWriteQueue, writeQueue, submitted, opChain, opSteps>>

\* The body of an operation awaits the adapter: it may take any number of turns.
BodyStep(k) ==
    /\ opState[k] = "running"
    /\ opSteps[k] < MaxBodySteps
    /\ opSteps' = [opSteps EXCEPT ![k] = @ + 1]
    /\ UNCHANGED <<enableWriteQueue, writeQueue, submitted, opChain, opState,
                   opValue, startOrder>>

BodyFulfil(k) ==
    /\ opState[k] = "running"
    /\ opState' = [opState EXCEPT ![k] = "fulfilled"]
    /\ opValue' = [opValue EXCEPT ![k] = <<"ok", k>>]
    /\ UNCHANGED <<enableWriteQueue, writeQueue, submitted, opChain, opSteps,
                   startOrder>>

BodyReject(k) ==
    /\ opState[k] = "running"
    /\ opState' = [opState EXCEPT ![k] = "rejected"]
    /\ opValue' = [opValue EXCEPT ![k] = <<"err", k>>]
    /\ UNCHANGED <<enableWriteQueue, writeQueue, submitted, opChain, opSteps,
                   startOrder>>

\* ------------------------------------------------------------ transactions
Tasks == {1, 2}
MainTask == 1
StateError == <<"err", "No transaction in progress">>

Top(t) == txStack[t][Len(txStack[t])]
Depth(t) == Len(txStack[t])
InCallback(t) ==
    /\ Depth(t) > 0
    /\ Top(t).pc = "callback"

\* `if (!wasInTransaction)`: only a call made outside a transaction begins,
\* commits or rolls back.
OwnsBoundaryAlways(was) == TRUE

OwnsBoundary(was) == ~was

\* What transaction() does once its callback has settled: commit in the try
\* block after a fulfilment, rollback in the catch block after a rejection.
SettleStepCommitOnError(was, cbOk) ==
    IF ~OwnsBoundary(was) THEN "none" ELSE "commit"

SettleStep(was, cbOk) ==
    IF ~OwnsBoundary(was) THEN "none"
    ELSE IF cbOk THEN "commit" ELSE "rollback"

\* `throw error` at the end of the catch block: the call rejects with the
\* callback's error.
CatchResultSwallowed(e) == <<"ok", "undefined">>

CatchResult(e) == e

\* The backend's ROLLBACK restores what it held at BEGIN.
RollbackRows(rows, snapshot) == snapshot

TInit ==
    /\ inTransactionFlag = FALSE
    /\ dbRows = {}
    /\ dbSnapshot = {}
    /\ txStack = [t \in Tasks |-> << >>]
    /\ txCalls = 0
    /\ txNested = 0
    /\ txWrites = 0
    /\ txLog = << >>
    /\ txDone = << >>

\* The call at the top of t's stack settles with `result`: it is recorded, and
\* its caller (the enclosing callback, if any) receives the result.
SettleCall(t, cb, result) ==
    LET f == Top(t)
        d == Depth(t)
        rest == SubSeq(txStack[t], 1, d - 1)
        parent == rest[d - 1]
        resumed == [parent EXCEPT
                       !.exc = IF result[1] = "err" THEN result ELSE parent.exc,
                       !.writes = parent.writes \cup f.writes]
    IN  /\ txDone' = Append(txDone, [call |-> txCalls, depth |-> d, was |-> f.was,
                                     cb |-> cb, result |-> result,
                                     writes |-> f.writes])
        /\ txStack' = [txStack EXCEPT ![t] =
                          IF d = 1 THEN << >>
                          ELSE [rest EXCEPT ![d - 1] = resumed]]

\* transaction(callback), up to its first await: read adapter.inTransaction(),
\* then either call adapter.beginTransaction() or start the callback.
Transaction(t) ==
    /\ \/ Depth(t) = 0 /\ txCalls < MaxTopCalls
       \/ /\ InCallback(t) /\ Top(t).exc = None
          /\ Depth(t) < MaxDepth /\ txNested < MaxNested
    /\ LET was == inTransactionFlag
           d == Depth(t) + 1
           log == IF d = 1 THEN << >> ELSE txLog
           f == [was |-> was, pc |-> "callback", exc |-> None, cb |-> None,
                 result |-> None, writes |-> {}, issued |-> FALSE]
       IN  /\ IF OwnsBoundary(was)
              THEN /\ txStack' = [txStack EXCEPT ![t] = Append(@,
                          [f EXCEPT !.pc = "beginning",
                                    !.issued = ~inTransactionFlag])]
                   /\ txLog' = Append(log, <<"begin", d>>)
              ELSE /\ txStack' = [txStack EXCEPT ![t] = Append(@, f)]
                   /\ txLog' = Append(log, <<"callback", d>>)
           /\ txCalls' = IF d = 1 THEN txCalls + 1 ELSE txCalls
           /\ txNested' = IF d = 1 THEN 0 ELSE txNested + 1
           /\ txWrites' = IF d = 1 THEN 0 ELSE txWrites
    /\ UNCHANGED <<inTransactionFlag, dbRows, dbSnapshot, txDone>>

\* adapter.beginTransaction() completes: BEGIN has run (unless the adapter
\* found its flag set and returned early) and the callback starts.
BeginDone(t) ==
    /\ Depth(t) > 0
    /\ Top(t).pc = "beginning"
    /\ IF Top(t).issued
       THEN /\ inTransactionFlag' = TRUE
            /\ dbSnapshot' = dbRows
       ELSE UNCHANGED <<inTransactionFlag, dbSnapshot>>
    /\ txStack' = [txStack EXCEPT ![t][Depth(t)].pc = "callback"]
    /\ txLog' = Append(txLog, <<"callback", Depth(t)>>)
    /\ UNCHANGED <<dbRows, txCalls, txNested, txWrites, txDone>>

\* The callback inserts a record (adapter.insert succeeds).
CallbackWrite(t) ==
    /\ InCallback(t) /\ Top(t).exc = None
    /\ txWrites < MaxWrites
    /\ LET row == <<txCalls, txWrites + 1>> IN
       /\ dbRows' = dbRows \cup {row}
       /\ txStack' = [txStack EXCEPT ![t][Depth(t)].writes = @ \cup {row}]
    /\ txWrites' = txWrites + 1
    /\ UNCHANGED <<inTransactionFlag, dbSnapshot, txCalls, txNested, txLog, txDone>>

\* The callback catches the error of a nested transaction() call and goes on.
CallbackCatch(t) ==
    /\ InCallback(t) /\ Top(t).exc # None
    /\ txStack' = [txStack EXCEPT ![t][Depth(t)].exc = None]
    /\ UNCHANGED <<inTransactionFlag, dbRows, dbSnapshot, txCalls, txNested,
                   txWrites, txLog, txDone>>

\* The adapter call transaction() makes after the callback settled with cb,
\* the call settling with result once the adapter is done.  commit() and
\* rollback() throw when the adapter has no open transaction; a throwing
\* commit() lands in the catch block, whose rollback() throws as well.
AfterCallback(t, cb, result) ==
    LET f == Top(t)
        step == SettleStep(f.was, cb[1] = "ok")
        marked == [txStack EXCEPT ![t][Depth(t)].cb = cb]
    IN  /\ IF step = "none"
           THEN /\ SettleCall(t, cb, result)
                /\ UNCHANGED txLog
           ELSE IF ~inTransactionFlag
           THEN /\ SettleCall(t, cb, StateError)
                /\ txLog' = IF step = "commit"
                            THEN txLog \o << <<"commit", Depth(t)>>,
                                             <<"rollback", Depth(t)>> >>
                            ELSE Append(txLog, <<"rollback", Depth(t)>>)
           ELSE /\ txStack' = [marked EXCEPT
                       ![t][Depth(t)].pc =
                           IF step = "commit" THEN "committing" ELSE "rollingback",
                       ![t][Depth(t)].result = result]
                /\ txLog' = Append(txLog, <<step, Depth(t)>>)
                /\ UNCHANGED txDone
        /\ UNCHANGED <<inTransactionFlag, dbRows, dbSnapshot, txCalls, txNested,
                       txWrites>>

\* The callback fulfils with its value.
CallbackReturn(t) ==
    /\ InCallback(t) /\ Top(t).exc = None
    /\ AfterCallback(t, <<"ok", Depth(t)>>, <<"ok", Depth(t)>>)

\* The callback rejects: with its own error, or with the error of a nested
\* call that it does not catch.
CallbackThrow(t) ==
    /\ InCallback(t)
    /\ LET e == IF Top(t).exc # None THEN Top(t).exc ELSE <<"err", Depth(t)>>
       IN  AfterCallback(t, e, CatchResult(e))

\* adapter.commit() completes.
CommitDone(t) ==
    /\ Depth(t) > 0
    /\ Top(t).pc = "committing"
    /\ inTransactionFlag' = FALSE
    /\ SettleCall(t, Top(t).cb, Top(t).result)
    /\ UNCHANGED <<dbRows, dbSnapshot, txCalls, txNested, txWrites, txLog>>

\* adapter.rollback() completes.
RollbackDone(t) ==
    /\ Depth(t) > 0
    /\ Top(t).pc = "rollingback"
    /\ inTransactionFlag' = FALSE
    /\ dbRows' = RollbackRows(dbRows, dbSnapshot)
    /\ SettleCall(t, Top(t).cb, Top(t).result)
    /\ UNCHANGED <<dbSnapshot, txCalls, txNested, txWrites, txLog>>

TNext ==
    \/ Transaction(MainTask) /\ UNCHANGED <<qvars, cvars, evars, lvars, wvars, rvars, hvars, avars, fvars, nvars, dvars, gvars>>
    \/ BeginDone(MainTask) /\ UNCHANGED <<qvars, cvars, evars, lvars, wvars, rvars, hvars, avars, fvars, nvars, dvars, gvars>>
    \/ CallbackWrite(MainTask) /\ UNCHANGED <<qvars, cvars, evars, lvars, wvars, rvars, hvars, avars, fvars, nvars, dvars, gvars>>
    \/ CallbackCatch(MainTask) /\ UNCHANGED <<qvars, cvars, evars, lvars, wvars, rvars, hvars, avars, fvars, nvars, dvars, gvars>>
    \/ CallbackReturn(MainTask) /\ UNCHANGED <<qvars, cvars, evars, lvars, wvars, rvars, hvars, avars, fvars, nvars, dvars, gvars>>
    \/ CallbackThrow(MainTask) /\ UNCHANGED <<qvars, cvars, evars, lvars, wvars, rvars, hvars, avars, fvars, nvars, dvars, gvars>>
    \/ CommitDone(MainTask) /\ UNCHANGED <<qvars, cvars, evars, lvars, wvars, rvars, hvars, avars, fvars, nvars, dvars, gvars>>
    \/ RollbackDone(MainTask) /\ UNCHANGED <<qvars, cvars, evars, lvars, wvars, rvars, hvars, avars, fvars, nvars, dvars, gvars>>

\* transaction() called from several tasks of the same connection, none from
\* inside another's callback: the calls overlap as their awaits allow.
OverlapNext ==
    \/ \E t \in Tasks : Depth(t) = 0 /\ Transaction(t) /\ UNCHANGED <<qvars, cvars, evars, lvars, wvars, rvars, hvars, avars, fvars, nvars, dvars, gvars>>
    \/ \E t \in Tasks : BeginDone(t) /\ UNCHANGED <<qvars, cvars, evars, lvars, wvars, rvars, hvars, avars, fvars, nvars, dvars, gvars>>
    \/ \E t \in Tasks : CallbackWrite(t) /\ UNCHANGED <<qvars, cvars, evars, lvars, wvars, rvars, hvars, avars, fvars, nvars, dvars, gvars>>
    \/ \E t \in Tasks : CallbackReturn(t) /\ UNCHANGED <<qvars, cvars, evars, lvars, wvars, rvars, hvars, avars, fvars, nvars, dvars, gvars>>
    \/ \E t \in Tasks : CallbackThrow(t) /\ UNCHANGED <<qvars, cvars, evars, lvars, wvars, rvars, hvars, avars, fvars, nvars, dvars, gvars>>
    \/ \E t \in Tasks : CommitDone(t) /\ UNCHANGED <<qvars, cvars, evars, lvars, wvars, rvars, hvars, avars, fvars, nvars, dvars, gvars>>
    \/ \E t \in Tasks : RollbackDone(t) /\ UNCHANGED <<qvars, cvars, evars, lvars, wvars, rvars, hvars, avars, fvars, nvars, dvars, gvars>>

\* ----------------------------------------------------------- result cache
Tables == {"a", "b"}
Ids == 1..MaxId
Readers == {1}

\* A function with one more (or one replaced) mapping, and one without a key.
Put(f, k, v) == [x \in (DOMAIN f) \cup {k} |-> IF x = k THEN v ELSE f[x]]
Drop(f, k) == [x \in (DOMAIN f) \ {k} |-> f[x]]
Range(seq) == {seq[i] : i \in 1..Len(seq)}

\* Position of key in the cache Map (0: absent).
IndexOf(c, key) ==
    IF \E i \in 1..Len(c) : c[i].key = key
    THEN CHOOSE i \in 1..Len(c) : c[i].key = key
    ELSE 0

RECURSIVE RemoveFromTags(_, _, _)
\* The loop of MemoryResultCache.delete: drop key from each tag's set, and the
\* tag itself once its set is empty.
RemoveFromTags(tm, key, tags) ==
    IF tags = << >> THEN tm
    ELSE LET tag == Head(tags)
             tm1 == IF tag \in DOMAIN tm
                    THEN IF tm[tag] \ {key} = {}
                         THEN Drop(tm, tag)
                         ELSE Put(tm, tag, tm[tag] \ {key})
                    ELSE tm
         IN  RemoveFromTags(tm1, key, Tail(tags))

\* MemoryResultCache.delete(key, tags)
CacheDelete(cs, key, tags) ==
    [cs EXCEPT !.cache = SelectSeq(cs.cache, LAMBDA e : e.key # key),
               !.tagMap = RemoveFromTags(cs.tagMap, key, tags)]

\* MemoryResultCache.evictOldest(): the first entry, in Map order, with the
\* smallest lastUsed.
EvictOldest(cs) ==
    IF cs.cache = << >> THEN cs
    ELSE LET c == cs.cache
             i == CHOOSE i \in 1..Len(c) :
                      /\ \A j \in 1..Len(c) : c[i].lastUsed <= c[j].lastUsed
                      /\ \A j \in 1..(i - 1) : c[j].lastUsed > c[i].lastUsed
         IN  CacheDelete(cs, c[i].key, c[i].tags)

\* The loop of MemoryResultCache.set over the tags, and one that stops
\* after the first tag.
AddToFirstTag(tm, key, tags) ==
    IF tags = << >> THEN tm
    ELSE LET tag == Head(tags)
             old == IF tag \in DOMAIN tm THEN tm[tag] ELSE {}
         IN  Put(tm, tag, old \cup {key})

RECURSIVE AddToTags(_, _, _)
AddToTags(tm, key, tags) ==
    IF tags = << >> THEN tm
    ELSE LET tag == Head(tags)
             old == IF tag \in DOMAIN tm THEN tm[tag] ELSE {}
         IN  AddToTags(Put(tm, tag, old \cup {key}), key, Tail(tags))

\* MemoryResultCache.set(key, value, tags) at instant now.
CacheSet(cs, key, value, tags, now, ttl) ==
    LET cs1 == IF Len(cs.cache) >= CacheMaxSize /\ IndexOf(cs.cache, key) = 0
               THEN EvictOldest(cs) ELSE cs
        entry == [key |-> key, value |-> value, tags |-> tags,
                  expiresAt |-> IF ttl # 0 THEN now + ttl ELSE 0,
                  lastUsed |-> now]
        i == IndexOf(cs1.cache, key)
    IN  [cs1 EXCEPT !.cache = IF i = 0 THEN Append(cs1.cache, entry)
                               ELSE [cs1.cache EXCEPT ![i] = entry],
                    !.tagMap = AddToTags(cs1.tagMap, key, tags)]

\* MemoryResultCache.get(key) at instant now, as cachedSelect's `if (cached)`
\* sees it: does it hit (an empty row list is a hit too), and the cache after.
CacheGetHitsNonEmpty(cs, key, now) ==
    LET i == IndexOf(cs.cache, key) IN
    /\ i # 0
    /\ ~(cs.cache[i].expiresAt # 0 /\ now > cs.cache[i].expiresAt)
    /\ cs.cache[i].value # << >>

CacheGetHits(cs, key, now) ==
    LET i == IndexOf(cs.cache, key) IN
    /\ i # 0
    /\ ~(cs.cache[i].expiresAt # 0 /\ now > cs.cache[i].expiresAt)

CacheGetValue(cs, key) == cs.cache[IndexOf(cs.cache, key)].value

CacheGetAfter(cs, key, now) ==
    LET i == IndexOf(cs.cache, key) IN
    IF i = 0 THEN cs
    ELSE IF cs.cache[i].expiresAt # 0 /\ now > cs.cache[i].expiresAt
    THEN CacheDelete(cs, key, cs.cache[i].tags)
    ELSE [cs EXCEPT !.cache[i].lastUsed = now]

\* MemoryResultCache.getRowById(table, id): is there a row, and which.
HasRow(cs, table, id) ==
    /\ table \in DOMAIN cs.rowCache
    /\ id \in DOMAIN cs.rowCache[table]

GetRowById(cs, table, id) == cs.rowCache[table][id]

\* MemoryResultCache.setRowById(table, id, row)
SetRowById(cs, table, id, row) ==
    LET tableMap == IF table \in DOMAIN cs.rowCache THEN cs.rowCache[table]
                    ELSE << >>
    IN  [cs EXCEPT !.rowCache = Put(cs.rowCache, table, Put(tableMap, id, row))]

RECURSIVE DeleteKeys(_, _)
\* The inner loop of invalidate: delete every entry the tag's set names.
DeleteKeys(cs, keys) ==
    IF keys = {} THEN cs
    ELSE LET key == CHOOSE k \in keys : TRUE
             i == IndexOf(cs.cache, key)
             cs1 == IF i # 0 THEN CacheDelete(cs, key, cs.cache[i].tags) ELSE cs
         IN  DeleteKeys(cs1, keys \ {key})

\* One turn of the loop of MemoryResultCache.invalidate(tables): a table with
\* no tagMap entry is skipped (`if (!keys) continue`), its row cache with it.
InvalidateTable(cs, table) ==
    IF table \notin DOMAIN cs.tagMap THEN cs
    ELSE LET cs1 == DeleteKeys(cs, cs.tagMap[table])
         IN  [cs1 EXCEPT !.tagMap = Drop(cs1.tagMap, table),
                         !.rowCache = Drop(cs1.rowCache, table)]

RECURSIVE Invalidate(_, _)
\* MemoryResultCache.invalidate(tables)
Invalidate(cs, tables) ==
    IF tables = << >> THEN cs
    ELSE Invalidate(InvalidateTable(cs, Head(tables)), Tail(tables))

\* ------------------------------------------------------ ORM.cachedSelect
\* The read statements of the model, by shape:
\*   eq   SELECT * FROM t WHERE id = ?               bindings <<id>>
\*   find SELECT * FROM t WHERE id = ? LIMIT ?       bindings <<id, 1>>
\*   in   SELECT * FROM t WHERE id IN (?, ...)       bindings ids
\*   all  SELECT * FROM t                            no bindings
\*   join SELECT * FROM t INNER JOIN u ON ...        no bindings
\*   eqRaw SELECT * FROM t WHERE id = ? AND (val = 1) bindings <<id>>
\*        (where(pk, id) followed by a raw condition without bindings)
IdLists == {<<i, j>> : i, j \in Ids}

Statements ==
    [shape : {"eq"}, table : {"a"}, join : {"none"}, ids : {<<i>> : i \in Ids}]
    \cup [shape : {"find"}, table : {"a"}, join : {"none"}, ids : {<<1>>}]
    \cup [shape : {"in"}, table : {"a"}, join : {"none"},
          ids : {ids \in IdLists : ids[1] # ids[2]}]
    \cup [shape : {"all"}, table : Tables, join : {"none"}, ids : {<< >>}]
    \cup [shape : {"join"}, table : {"a"}, join : {"b"}, ids : {<< >>}]

\* The statements with a condition after the primary-key equality.
RawStatements ==
    [shape : {"eqRaw"}, table : {"a"}, join : {"none"}, ids : {<<1>>}]

\* The bindings the dialect compiles for a statement.
Params(stmt) ==
    IF stmt.shape = "find" THEN stmt.ids \o <<1>> ELSE stmt.ids

\* QueryBuilder.extractTableNames(): the base table, then the joined tables.
ExtractTableNames(stmt) ==
    IF stmt.join = "none" \/ stmt.join = stmt.table
    THEN <<stmt.table>> ELSE <<stmt.table, stmt.join>>

\* ORM.makeCacheKey(sql, params): connection id, normalised text, bindings.
MakeCacheKey(stmt) == <<"default", stmt.shape, stmt.table, stmt.join, Params(stmt)>>

\* The branch of cachedSelect a statement takes: the regular expressions on
\* the statement text, and `params.length === 1` for the equality branch.
Route(stmt) ==
    LET selectStarMatch == stmt.shape \in {"eq", "find", "in", "eqRaw"}
        eqMatch == stmt.shape \in {"eq", "find", "eqRaw"}
        inMatch == stmt.shape = "in"
    IN  IF selectStarMatch /\ eqMatch /\ Len(Params(stmt)) = 1 THEN "rowEq"
        ELSE IF selectStarMatch /\ inMatch THEN "rowIn"
        ELSE "query"

\* The guard at the top of cachedSelect.
CacheBypassedOutsideTx(disabled, inTx, hasAdapter) == disabled \/ ~hasAdapter

CacheBypassed(disabled, inTx, hasAdapter) == disabled \/ inTx \/ ~hasAdapter

\* The backend's answer to a statement (adapter.query), rows in id order.
Row(db, table, id) == [id |-> id, val |-> db[table][id]]

RECURSIVE RowsOf(_, _, _, _)
RowsOf(db, table, idSet, from) ==
    IF from > MaxId THEN << >>
    ELSE (IF from \in idSet /\ db[table][from] # 0
          THEN <<Row(db, table, from)>> ELSE << >>)
         \o RowsOf(db, table, idSet, from + 1)

RECURSIVE JoinRows(_, _, _, _)
JoinRows(db, table, join, from) ==
    IF from > MaxId THEN << >>
    ELSE (IF db[table][from] # 0 /\ db[join][from] # 0
          THEN <<[id |-> from, val |-> db[table][from], jval |-> db[join][from]]>>
          ELSE << >>)
         \o JoinRows(db, table, join, from + 1)

AdapterQuery(db, stmt) ==
    IF stmt.shape = "join" THEN JoinRows(db, stmt.table, stmt.join, 1)
    ELSE IF stmt.shape = "all" THEN RowsOf(db, stmt.table, Ids, 1)
    ELSE IF stmt.shape = "eqRaw"
    THEN SelectSeq(RowsOf(db, stmt.table, Range(stmt.ids), 1),
                   LAMBDA row : row.val = 1)
    ELSE RowsOf(db, stmt.table, Range(stmt.ids), 1)

CacheState == [cache |-> cache, tagMap |-> tagMap, rowCache |-> rowCache]

SetCacheState(cs) ==
    /\ cache' = cs.cache
    /\ tagMap' = cs.tagMap
    /\ rowCache' = cs.rowCache

\* `this.resultCacheAdapter.getRowById?.(table, id)` gave a row, and
\* `this.resultCacheAdapter.setRowById?.(table, id, row)`: without the
\* method the call yields undefined and does nothing.
RowHit(cs, table, id) == rowMethods /\ HasRow(cs, table, id)

SetRowByIdIfAny(cs, table, id, row) ==
    IF rowMethods THEN SetRowById(cs, table, id, row) ELSE cs

\* The loop over the requested ids: rows found in the row cache, ids missing.
RECURSIVE CachedRows(_, _, _)
CachedRows(cs, table, ids) ==
    IF ids = << >> THEN << >>
    ELSE (IF RowHit(cs, table, Head(ids))
          THEN <<GetRowById(cs, table, Head(ids))>> ELSE << >>)
         \o CachedRows(cs, table, Tail(ids))

\* ... and a loop that asks for every id again
MissingIdsAll(cs, table, ids) == ids

MissingIds(cs, table, ids) == SelectSeq(ids, LAMBDA id : ~RowHit(cs, table, id))

RECURSIVE SetRows(_, _, _)
\* `for (const row of fetchedRows) setRowById(table, row.id, row)`
SetRows(cs, table, rows) ==
    IF rows = << >> THEN cs
    ELSE SetRows(SetRowByIdIfAny(cs, table, Head(rows).id, Head(rows)), table,
                 Tail(rows))

RECURSIVE MergeRows(_, _)
\* `idParams.map(id => idToRow.get(id)).filter(Boolean)`
MergeRows(ids, rows) ==
    IF ids = << >> THEN << >>
    ELSE (IF \E i \in 1..Len(rows) : rows[i].id = Head(ids)
          THEN <<rows[CHOOSE i \in 1..Len(rows) :
                        /\ rows[i].id = Head(ids)
                        /\ \A j \in (i + 1)..Len(rows) : rows[j].id # Head(ids)]>>
          ELSE << >>)
         \o MergeRows(Tail(ids), rows)

Idle == [pc |-> "idle"]

ReadsInFlight == {r \in Readers : reads[r].pc \notin {"idle", "done"}}

References(stmt, table) == table \in Range(ExtractTableNames(stmt))

\* A cachedSelect call that has returned `rows`.
DoneRead(rd, rows) == [rd EXCEPT !.pc = "done", !.rows = rows]

\* History, for stating what a repeated read is: the last read
\* whose whole execution no write overlapped (open while it awaits the adapter).
Opened(stmt) == <<[stmt |-> stmt, rows |-> << >>, open |-> TRUE]>>

Closed(stmt, rows) == <<[stmt |-> stmt, rows |-> rows, open |-> FALSE]>>

CloseIfOpen(stmt, rows) ==
    IF lastDone # << >> /\ lastDone[1].open THEN Closed(stmt, rows) ELSE << >>

\* cachedSelect(sql, params, tables) up to its first await, or to its return
\* when the cache answers.
ReadCall(r, stmt) ==
    /\ reads[r].pc \in {"idle", "done"}
    /\ readsMade < MaxReads
    /\ readsMade' = readsMade + 1
    /\ LET cs == CacheState
           key == MakeCacheKey(stmt)
           tables == IF hasCacheAdapter THEN ExtractTableNames(stmt) ELSE << >>
           rd == [pc |-> "await", stmt |-> stmt, route |-> "bypass", rows |-> << >>,
                  fetched |-> << >>, cached |-> << >>, tables |-> tables,
                  adapterCalls |-> 0, asked |-> << >>, fromCache |-> FALSE,
                  touched |-> FALSE,
                  bypass |-> (disableResultCache \/ inTransactionFlag
                                 \/ ~hasCacheAdapter),
                  afterWrite |-> \E t \in quietWrite : References(stmt, t),
                  repeat |-> (lastDone # << >> /\ ~lastDone[1].open
                                 /\ lastDone[1].stmt = stmt),
                  prevRows |-> IF lastDone # << >> THEN lastDone[1].rows ELSE << >>]
           sent == [rd EXCEPT !.adapterCalls = 1, !.asked = Params(stmt),
                              !.fetched = AdapterQuery(dbTable, stmt)]
       IN  /\ quietWrite' = {t \in quietWrite : ~References(stmt, t)}
           /\ write' = IF write.pc = "sent" THEN [write EXCEPT !.quiet = FALSE]
                        ELSE write
           /\ IF CacheBypassed(disableResultCache, inTransactionFlag, hasCacheAdapter)
              THEN /\ reads' = [reads EXCEPT ![r] = sent]
                   /\ UNCHANGED <<cache, tagMap, rowCache, lastDone>>
              ELSE IF Route(stmt) = "rowEq"
              THEN IF RowHit(cs, stmt.table, stmt.ids[1])
                   THEN LET rows == <<GetRowById(cs, stmt.table, stmt.ids[1])>> IN
                        /\ reads' = [reads EXCEPT ![r] =
                               DoneRead([rd EXCEPT !.route = "rowEq",
                                                   !.touched = TRUE,
                                                   !.fromCache = TRUE], rows)]
                        /\ lastDone' = Closed(stmt, rows)
                        /\ UNCHANGED <<cache, tagMap, rowCache>>
                   ELSE /\ reads' = [reads EXCEPT ![r] =
                               [sent EXCEPT !.route = "rowEq", !.touched = TRUE]]
                        /\ lastDone' = Opened(stmt)
                        /\ UNCHANGED <<cache, tagMap, rowCache>>
              ELSE IF Route(stmt) = "rowIn"
              THEN LET cachedRows == CachedRows(cs, stmt.table, stmt.ids)
                       missingIds == MissingIds(cs, stmt.table, stmt.ids)
                       rin == [rd EXCEPT !.route = "rowIn", !.touched = TRUE,
                                         !.cached = cachedRows,
                                         !.fromCache = (cachedRows # << >>)]
                   IN  IF missingIds # << >>
                       THEN /\ reads' = [reads EXCEPT ![r] =
                                   [rin EXCEPT !.adapterCalls = 1,
                                               !.asked = missingIds,
                                               !.fetched = AdapterQuery(dbTable,
                                                   [stmt EXCEPT !.ids = missingIds])]]
                            /\ lastDone' = Opened(stmt)
                            /\ UNCHANGED <<cache, tagMap, rowCache>>
                       ELSE LET rows == MergeRows(stmt.ids, cachedRows) IN
                            /\ reads' = [reads EXCEPT ![r] = DoneRead(rin, rows)]
                            /\ lastDone' = Closed(stmt, rows)
                            /\ UNCHANGED <<cache, tagMap, rowCache>>
              ELSE IF CacheGetHits(cs, key, clock)
                   THEN LET rows == CacheGetValue(cs, key) IN
                        /\ reads' = [reads EXCEPT ![r] =
                               DoneRead([rd EXCEPT !.route = "query",
                                                   !.touched = TRUE,
                                                   !.fromCache = TRUE], rows)]
                        /\ SetCacheState(CacheGetAfter(cs, key, clock))
                        /\ lastDone' = Closed(stmt, rows)
                   ELSE /\ reads' = [reads EXCEPT ![r] =
                               [sent EXCEPT !.route = "query", !.touched = TRUE]]
                        /\ SetCacheState(CacheGetAfter(cs, key, clock))
                        /\ lastDone' = Opened(stmt)
    /\ UNCHANGED <<hasCacheAdapter, disableResultCache, clock, defaultTTL, dbTable,
                   writesMade, inTransactionFlag>>

\* The rest of cachedSelect, once adapter.query has answered.
ReadReturn(r) ==
    /\ reads[r].pc = "await"
    /\ LET rd == reads[r]
           cs == CacheState
           stmt == rd.stmt
       IN  IF rd.route = "bypass"
           THEN /\ reads' = [reads EXCEPT ![r] = DoneRead(rd, rd.fetched)]
                /\ lastDone' = << >>
                /\ UNCHANGED <<cache, tagMap, rowCache>>
           ELSE IF rd.route = "rowEq"
           THEN /\ reads' = [reads EXCEPT ![r] = DoneRead(rd, rd.fetched)]
                /\ lastDone' = CloseIfOpen(stmt, rd.fetched)
                /\ SetCacheState(IF rd.fetched # << >>
                                 THEN SetRowByIdIfAny(cs, stmt.table, stmt.ids[1],
                                                      rd.fetched[1])
                                 ELSE cs)
           ELSE IF rd.route = "rowIn"
           THEN LET rows == MergeRows(stmt.ids, rd.cached \o rd.fetched) IN
                /\ reads' = [reads EXCEPT ![r] = DoneRead(rd, rows)]
                /\ lastDone' = CloseIfOpen(stmt, rows)
                /\ SetCacheState(SetRows(cs, stmt.table, rd.fetched))
           ELSE /\ reads' = [reads EXCEPT ![r] = DoneRead(rd, rd.fetched)]
                /\ lastDone' = CloseIfOpen(stmt, rd.fetched)
                /\ SetCacheState(CacheSet(cs, MakeCacheKey(stmt), rd.fetched,
                                          rd.tables, clock, defaultTTL))
    /\ UNCHANGED <<hasCacheAdapter, disableResultCache, clock, defaultTTL, dbTable,
                   write, quietWrite, readsMade, writesMade, inTransactionFlag>>

\* ORM.invalidateResultCache(tables)
InvalidateResultCache(cs, tables) ==
    IF hasCacheAdapter THEN Invalidate(cs, tables) ELSE cs

\* What a write statement leaves in the backend: an insert stores the first
\* value, an update the next value, a delete removes the row.
ApplyWrite(db, w) ==
    [db EXCEPT ![w.table][w.id] =
        CASE w.kind = "insert" -> 1
          [] w.kind = "update" -> (db[w.table][w.id] % MaxVal) + 1
          [] w.kind = "delete" -> 0]

\* insert(), update() with a dirty field, or delete() of a record: the body
\* up to its await of the adapter.  The adapter may reject the statement.
WriteStart(kind, table, id, ok) ==
    /\ write.pc = "idle"
    /\ writesMade < MaxCacheWrites
    /\ writesMade' = writesMade + 1
    /\ IF kind = "insert" THEN dbTable[table][id] = 0 ELSE dbTable[table][id] # 0
    /\ LET w == [pc |-> "sent", kind |-> kind, table |-> table, id |-> id,
                 ok |-> ok, quiet |-> (ReadsInFlight = {})]
       IN  /\ write' = w
           /\ dbTable' = IF ok THEN ApplyWrite(dbTable, w) ELSE dbTable
    /\ lastDone' = << >>
    /\ UNCHANGED <<hasCacheAdapter, disableResultCache, cache, tagMap, rowCache,
                   clock, defaultTTL, reads, quietWrite, readsMade,
                   inTransactionFlag>>

\* The rest of the write body once the adapter has answered: on success the
\* written table is invalidated; a rejection propagates without it.
WriteDone ==
    /\ write.pc = "sent"
    /\ write' = Idle
    /\ lastDone' = << >>
    /\ IF write.ok
       THEN /\ SetCacheState(InvalidateResultCache(CacheState, <<write.table>>))
            /\ quietWrite' = IF write.quiet /\ ReadsInFlight = {}
                             THEN quietWrite \cup {write.table}
                             ELSE quietWrite \ {write.table}
       ELSE UNCHANGED <<cache, tagMap, rowCache, quietWrite>>
    /\ UNCHANGED <<hasCacheAdapter, disableResultCache, clock, defaultTTL, dbTable,
                   reads, readsMade, writesMade, inTransactionFlag>>

\* ORM.setResultCacheDisabled(disabled)
SetResultCacheDisabled(disabled) ==
    /\ disableResultCache # disabled
    /\ disableResultCache' = disabled
    /\ UNCHANGED <<hasCacheAdapter, cache, tagMap, rowCache, clock, defaultTTL,
                   dbTable, reads, write, lastDone, quietWrite, readsMade,
                   writesMade, inTransactionFlag>>

\* adapter.beginTransaction() and adapter.commit() as the cache sees them:
\* the flag adapter.inTransaction() reports.
AdapterBeginTransaction ==
    /\ ~inTransactionFlag
    /\ inTransactionFlag' = TRUE
    /\ UNCHANGED cvars

AdapterCommit ==
    /\ inTransactionFlag
    /\ inTransactionFlag' = FALSE
    /\ UNCHANGED cvars

CInit ==
    /\ hasCacheAdapter \in BOOLEAN
    /\ disableResultCache = FALSE
    /\ cache = << >>
    /\ tagMap = << >>
    /\ rowCache = << >>
    /\ clock = 0
    /\ defaultTTL = 0
    /\ dbTable = [t \in Tables |-> [i \in Ids |-> IF i = 1 THEN 1 ELSE 0]]
    /\ reads = [r \in Readers |-> Idle]
    /\ write = Idle
    /\ lastDone = << >>
    /\ quietWrite = {}
    /\ readsMade = 0
    /\ writesMade = 0

CIdle ==
    /\ hasCacheAdapter = FALSE
    /\ disableResultCache = FALSE
    /\ cache = << >>
    /\ tagMap = << >>
    /\ rowCache = << >>
    /\ clock = 0
    /\ defaultTTL = 0
    /\ dbTable = [t \in Tables |-> [i \in Ids |-> 0]]
    /\ reads = [r \in Readers |-> Idle]
    /\ write = Idle
    /\ lastDone = << >>
    /\ quietWrite = {}
    /\ readsMade = 0
    /\ writesMade = 0

TxIdle ==
    /\ dbRows = {}
    /\ dbSnapshot = {}
    /\ txStack = [t \in Tasks |-> << >>]
    /\ txCalls = 0
    /\ txNested = 0
    /\ txWrites = 0
    /\ txLog = << >>
    /\ txDone = << >>

txOnly == <<dbRows, dbSnapshot, txStack, txCalls, txNested, txWrites, txLog, txDone>>

CNext ==
    \/ \E r \in Readers, stmt \in Statements :
           ReadCall(r, stmt) /\ UNCHANGED <<qvars, txOnly, evars, lvars, wvars, rvars, hvars, avars, fvars, nvars, dvars, gvars>>
    \/ \E r \in Readers : ReadReturn(r) /\ UNCHANGED <<qvars, txOnly, evars, lvars, wvars, rvars, hvars, avars, fvars, nvars, dvars, gvars>>
    \/ \E kind \in {"insert", "update", "delete"}, table \in Tables, id \in Ids,
          ok \in BOOLEAN :
           WriteStart(kind, table, id, ok) /\ UNCHANGED <<qvars, txOnly, evars, lvars, wvars, rvars, hvars, avars, fvars, nvars, dvars, gvars>>
    \/ WriteDone /\ UNCHANGED <<qvars, txOnly, evars, lvars, wvars, rvars, hvars, avars, fvars, nvars, dvars, gvars>>
    \/ \E disabled \in BOOLEAN :
           SetResultCacheDisabled(disabled) /\ UNCHANGED <<qvars, txOnly, evars, lvars, wvars, rvars, hvars, avars, fvars, nvars, dvars, gvars>>
    \/ AdapterBeginTransaction /\ UNCHANGED <<qvars, txOnly, evars, lvars, wvars, rvars, hvars, avars, fvars, nvars, dvars, gvars>>
    \/ AdapterCommit /\ UNCHANGED <<qvars, txOnly, evars, lvars, wvars, rvars, hvars, avars, fvars, nvars, dvars, gvars>>

\* The same operations issued one at a time, each awaited before the next.
NothingInFlight ==
    /\ write.pc = "idle"
    /\ \A r \in Readers : reads[r].pc \in {"idle", "done"}

SeqNext ==
    \/ \E r \in Readers, stmt \in Statements \cup RawStatements :
           NothingInFlight /\ ReadCall(r, stmt) /\ UNCHANGED <<qvars, txOnly, evars, lvars, wvars, rvars, hvars, avars, fvars, nvars, dvars, gvars>>
    \/ \E r \in Readers : ReadReturn(r) /\ UNCHANGED <<qvars, txOnly, evars, lvars, wvars, rvars, hvars, avars, fvars, nvars, dvars, gvars>>
    \/ \E kind \in {"insert", "update", "delete"}, table \in Tables, id \in Ids,
          ok \in BOOLEAN :
           NothingInFlight /\ WriteStart(kind, table, id, ok) /\ UNCHANGED <<qvars, txOnly, evars, lvars, wvars, rvars, hvars, avars, fvars, nvars, dvars, gvars>>
    \/ WriteDone /\ UNCHANGED <<qvars, txOnly, evars, lvars, wvars, rvars, hvars, avars, fvars, nvars, dvars, gvars>>
    \/ \E disabled \in BOOLEAN :
           NothingInFlight /\ SetResultCacheDisabled(disabled) /\ UNCHANGED <<qvars, txOnly, evars, lvars, wvars, rvars, hvars, avars, fvars, nvars, dvars, gvars>>
    \/ NothingInFlight /\ AdapterBeginTransaction /\ UNCHANGED <<qvars, txOnly, evars, lvars, wvars, rvars, hvars, avars, fvars, nvars, dvars, gvars>>
    \/ NothingInFlight /\ AdapterCommit /\ UNCHANGED <<qvars, txOnly, evars, lvars, wvars, rvars, hvars, avars, fvars, nvars, dvars, gvars>>

\* ----------------------------------------------------------- eager loading
Variants == {"hasOne", "hasMany", "belongsTo", "belongsToMany", "morphTo"}
Keys == 0..MaxKey
Discriminators == {"none", "a", "b", "x"}

\* config.morphMap: discriminator value -> the related model's table
MorphMap == [a |-> "a", b |-> "b"]

\* A parent model as the loaders see it: the key the relationship reads
\* (0: null), its discriminator ("none": empty), the private slot
\* `_${relationName}` (loaded, value) and whether the public property
\* `relationName` has been assigned.
ParentModels ==
    [key : Keys, type : Discriminators, loaded : {FALSE}, value : {<< >>},
     prop : {FALSE}]

ParentLists == UNION {[1..n -> ParentModels] : n \in 0..MaxParents}

\* The related tables (rows in the order the backend returns them) and the
\* pivot table the model reads from.
RelatedTables ==
    {[a |-> rowsA, b |-> <<[id |-> 1, fk |-> 2]>>] :
        rowsA \in {<< >>,
                   <<[id |-> 1, fk |-> 1]>>,
                   <<[id |-> 1, fk |-> 1], [id |-> 2, fk |-> 1]>>,
                   <<[id |-> 1, fk |-> 1], [id |-> 2, fk |-> 2]>>}}

PivotTables ==
    {<< >>,
     <<[p |-> 1, r |-> 1]>>,
     <<[p |-> 1, r |-> 1], [p |-> 1, r |-> 2], [p |-> 2, r |-> 1]>>}

\* values.some(val => val != null), and the variant that only asks for values
HasValues(values) == Len(values) > 0

HasNonNullValue(values) == \E i \in 1..Len(values) : values[i] # 0

\* values.filter(v => v != null)
NonNull(values) ==
    LET Keep(v) == v # 0 IN SelectSeq(values, Keep)

\* [...new Set(values)]: first occurrences, in order
RECURSIVE Unique(_)
Unique(values) ==
    IF values = << >> THEN << >>
    ELSE LET n == Len(values)
             front == Unique(SubSeq(values, 1, n - 1))
         IN  IF values[n] \in Range(front) THEN front ELSE Append(front, values[n])

UniqueValues(values) == Unique(NonNull(values))

KeysOf(ps) == [i \in 1..Len(ps) |-> ps[i].key]

\* SELECT * FROM table WHERE column IN (ids), rows in backend order
SelectIn(rows, column, ids) ==
    LET Match(row) == row[column] \in Range(ids) IN SelectSeq(rows, Match)

RunStatement(stmt) ==
    IF stmt.table = "pivot" THEN SelectIn(pivotDb, stmt.column, stmt.ids)
    ELSE SelectIn(relDb[stmt.table], stmt.column, stmt.ids)

\* relatedMap.get(value) || null, relatedMap filled by set() row after row:
\* the last row carrying the value wins.
LastMatch(rows, column, value) ==
    LET hits == SelectIn(rows, column, <<value>>)
    IN  IF hits = << >> THEN << >> ELSE <<hits[Len(hits)]>>

\* model[`_${relationName}`] = value
SetSlot(p, value) == [p EXCEPT !.loaded = TRUE, !.value = value]

\* model[relationName] = []: the model is its Proxy, whose set trap stores a
\* name that is neither internal, a setter nor a method in _attributes
SetProperty(p) == [p EXCEPT !.prop = TRUE]

EagerIdle ==
    [pc |-> "idle", variant |-> "none", stmts |-> << >>, rows |-> << >>,
     pivotRows |-> << >>, groups |-> << >>, step |-> 0]

\* `continue` in the loop over the discriminator groups: on to the next
\* group; and a loop that ends at the group instead
BreakGroups(groups) == << >>

ContinueGroups(groups) == Tail(groups)

\* The loop over the discriminator groups of MorphTo.eagerLoadFor, run until
\* it awaits a statement or the groups are exhausted.
RECURSIVE MorphGroups(_, _, _)
MorphGroups(ps, groups, e) ==
    IF groups = << >>
    THEN [parents |-> ps, eager |-> [e EXCEPT !.pc = "done", !.groups = << >>]]
    ELSE LET d == Head(groups)
             members == {i \in 1..Len(ps) : ps[i].type = d}
             nulled == [i \in 1..Len(ps) |->
                           IF i \in members THEN SetSlot(ps[i], << >>) ELSE ps[i]]
             foreignKeys == NonNull(KeysOf(
                                LET In(p) == p.type = d IN SelectSeq(ps, In)))
         IN  IF d \notin DOMAIN MorphMap
             THEN MorphGroups(nulled, ContinueGroups(groups), e)
             ELSE IF Len(foreignKeys) = 0
             THEN MorphGroups(nulled, Tail(groups), e)
             ELSE LET stmt == [table |-> MorphMap[d], column |-> "id",
                               ids |-> Unique(foreignKeys)]
                  IN  [parents |-> ps,
                       eager |-> [e EXCEPT !.pc = "await", !.groups = groups,
                                           !.stmts = Append(e.stmts, stmt),
                                           !.rows = RunStatement(stmt)]]

\* eagerLoadFor(models, relationName), up to its first await or to its return.
EagerLoadFor(v) ==
    /\ eager.pc = "idle"
    /\ LET e == [EagerIdle EXCEPT !.variant = v]
           values == KeysOf(parents)
       IN  IF v = "morphTo"
           THEN LET first == [i \in 1..Len(parents) |->
                                 IF parents[i].type = "none"
                                 THEN SetSlot(parents[i], << >>) ELSE parents[i]]
                    grouped == Unique(LET Typed(d) == d # "none"
                                      IN  SelectSeq([i \in 1..Len(parents) |->
                                                        parents[i].type], Typed))
                    next == MorphGroups(first, grouped, e)
                IN  /\ parents' = next.parents
                    /\ eager' = next.eager
           ELSE IF ~HasNonNullValue(values)
           THEN /\ parents' = [i \in 1..Len(parents) |-> SetSlot(parents[i], << >>)]
                /\ eager' = [e EXCEPT !.pc = "done"]
           ELSE LET stmt ==
                        CASE v = "belongsToMany" ->
                                 [table |-> "pivot", column |-> "p",
                                  ids |-> UniqueValues(values)]
                          [] v = "belongsTo" ->
                                 [table |-> "a", column |-> "id",
                                  ids |-> UniqueValues(values)]
                          [] OTHER ->
                                 [table |-> "a", column |-> "fk",
                                  ids |-> UniqueValues(values)]
                IN  /\ eager' = [e EXCEPT !.pc = "await", !.step = 1,
                                          !.stmts = <<stmt>>,
                                          !.rows = RunStatement(stmt)]
                    /\ UNCHANGED parents
    /\ UNCHANGED <<relDb, pivotDb, lazyGot, lazyOne>>

\* The related models grouped under one parent key through the pivot rows.
PivotRelated(pivotRows, rows, key) ==
    LET mine == SelectIn(pivotRows, "p", <<key>>)
        found == LET Has(row) == LastMatch(rows, "id", row.r) # << >>
                 IN  SelectSeq(mine, Has)
    IN  [i \in 1..Len(found) |-> LastMatch(rows, "id", found[i].r)[1]]

\* The rest of eagerLoadFor once the awaited statement has answered.
EagerResume ==
    /\ eager.pc = "await"
    /\ LET v == eager.variant
           rows == eager.rows
       IN  CASE v = "hasOne" ->
                    /\ parents' = [i \in 1..Len(parents) |->
                           SetSlot(parents[i], LastMatch(rows, "fk", parents[i].key))]
                    /\ eager' = [eager EXCEPT !.pc = "done"]
             [] v = "hasMany" ->
                    /\ parents' = [i \in 1..Len(parents) |->
                           SetSlot(parents[i],
                                   SelectIn(rows, "fk", <<parents[i].key>>))]
                    /\ eager' = [eager EXCEPT !.pc = "done"]
             [] v = "belongsTo" ->
                    /\ parents' = [i \in 1..Len(parents) |->
                           SetSlot(parents[i], LastMatch(rows, "id", parents[i].key))]
                    /\ eager' = [eager EXCEPT !.pc = "done"]
             [] v = "belongsToMany" /\ eager.step = 1 ->
                    IF Len(rows) = 0
                    THEN /\ parents' = [i \in 1..Len(parents) |->
                                           SetProperty(parents[i])]
                         /\ eager' = [eager EXCEPT !.pc = "done"]
                    ELSE LET relatedIds == Unique([i \in 1..Len(rows) |-> rows[i].r])
                             stmt == [table |-> "a", column |-> "id",
                                      ids |-> relatedIds]
                         IN  /\ eager' = [eager EXCEPT
                                              !.step = 2, !.pivotRows = rows,
                                              !.stmts = Append(eager.stmts, stmt),
                                              !.rows = RunStatement(stmt)]
                             /\ UNCHANGED parents
             [] v = "belongsToMany" /\ eager.step = 2 ->
                    /\ parents' = [i \in 1..Len(parents) |->
                           SetSlot(parents[i],
                                   PivotRelated(eager.pivotRows, rows,
                                                parents[i].key))]
                    /\ eager' = [eager EXCEPT !.pc = "done"]
             [] v = "morphTo" ->
                    LET d == Head(eager.groups)
                        attached == [i \in 1..Len(parents) |->
                            IF parents[i].type = d
                            THEN SetSlot(parents[i],
                                         LastMatch(rows, "id", parents[i].key))
                            ELSE parents[i]]
                        next == MorphGroups(attached, Tail(eager.groups), eager)
                    IN  /\ parents' = next.parents
                        /\ eager' = next.eager
    /\ UNCHANGED <<relDb, pivotDb, lazyGot, lazyOne>>

\* MorphTo.get(parent): the lazy read of one parent's polymorphic
\* relationship; RelatedModel.find(foreignKeyValue) is one statement whose
\* first row is returned.
MorphToGet(i) ==
    /\ i \in 1..Len(parents)
    /\ LET discriminatorValue == parents[i].type
           foreignKeyValue == parents[i].key
           Returned(value, stmts) ==
               <<[parent |-> i, outcome |-> "returned", value |-> value,
                  stmts |-> stmts]>>
       IN  IF discriminatorValue = "none" \/ foreignKeyValue = 0
           THEN lazyGot' = Returned(<< >>, << >>)
           ELSE IF discriminatorValue \notin DOMAIN MorphMap
           THEN lazyGot' = Returned(<< >>, << >>)
           ELSE LET stmt == [table |-> MorphMap[discriminatorValue],
                             column |-> "id", ids |-> <<foreignKeyValue>>]
                    rows == RunStatement(stmt)
                IN  lazyGot' = Returned(IF rows = << >> THEN << >>
                                        ELSE <<rows[1]>>, <<stmt>>)
    /\ UNCHANGED <<parents, relDb, pivotDb, eager, lazyOne>>

\* results.length > 0 ? results[0] : null, and a variant returning the last row
LastResult(rows) == IF rows = << >> THEN << >> ELSE <<rows[Len(rows)]>>

FirstResult(rows) == IF rows = << >> THEN << >> ELSE <<rows[1]>>

\* HasOne.get(parent): where(foreignKey, parent[localKey]) and first(), which
\* sets LIMIT 1 and returns the first row of the answer.  A null key compiles
\* to a comparison with NULL, which no row satisfies.
HasOneGet(i) ==
    /\ i \in 1..Len(parents)
    /\ LET localValue == parents[i].key
           rows == IF localValue = 0 THEN << >>
                   ELSE SelectIn(relDb["a"], "fk", <<localValue>>)
       IN  lazyOne' = <<[parent |-> i, value |-> FirstResult(rows)]>>
    /\ UNCHANGED <<parents, relDb, pivotDb, eager, lazyGot>>

EInit ==
    /\ parents \in ParentLists
    /\ relDb \in RelatedTables
    /\ pivotDb \in PivotTables
    /\ eager = EagerIdle
    /\ lazyGot = << >>
    /\ lazyOne = << >>

EIdle ==
    /\ parents = << >>
    /\ relDb = [a |-> << >>, b |-> << >>]
    /\ pivotDb = << >>
    /\ eager = EagerIdle
    /\ lazyGot = << >>
    /\ lazyOne = << >>

ENext ==
    \/ \E v \in Variants : EagerLoadFor(v) /\ UNCHANGED <<qvars, tvars, cvars, lvars, wvars, rvars, hvars, avars, fvars, nvars, dvars, gvars>>
    \/ EagerResume /\ UNCHANGED <<qvars, tvars, cvars, lvars, wvars, rvars, hvars, avars, fvars, nvars, dvars, gvars>>
    \/ \E i \in 1..MaxParents :
           MorphToGet(i) /\ UNCHANGED <<qvars, tvars, cvars, lvars, wvars, rvars, hvars, avars, fvars, nvars, dvars, gvars>>
    \/ \E i \in 1..MaxParents :
           HasOneGet(i) /\ UNCHANGED <<qvars, tvars, cvars, lvars, wvars, rvars, hvars, avars, fvars, nvars, dvars, gvars>>

\* ------------------------------------------------------------ lazy loading
\* One record and one relationship name of it.  A promise is written
\* <<n, "load">> for the promise of the n-th loadRelationship call and
\* <<n, "then">> for the promise getWithSuspense derives from it with then().
NoPromise == << >>

Running == {n \in 1..Len(loads) : loads[n].state = "running"}

\* Has the promise settled (so that an await of it can resume)?
PromiseSettled(p) ==
    IF p[2] = "load" THEN loads[p[1]].state # "running"
    ELSE \/ loads[p[1]].state = "rejected"
         \/ loads[p[1]].state = "fulfilled" /\ ~loads[p[1]].thenDue

\* this.loadRelationship(relationshipName): the call, up to its await
NewLoad(by) == [state |-> "running", by |-> by, thenDue |-> FALSE]

Access(kind, outcome, promise, started) ==
    <<[kind |-> kind, outcome |-> outcome, promise |-> promise,
       started |-> started, slotBefore |-> slot, runningBefore |-> Running]>>

\* getWithSuspense(relationshipName)
GetWithSuspense ==
    /\ accessesMade < MaxAccesses
    /\ accessesMade' = accessesMade + 1
    /\ IF slot # 0
       THEN /\ lastAccess' = Access("get", "value", NoPromise, FALSE)
            /\ UNCHANGED <<loadingKey, loads>>
       ELSE IF loadingKey # NoPromise
       THEN /\ lastAccess' = Access("get", "raise", loadingKey, FALSE)
            /\ UNCHANGED <<loadingKey, loads>>
       ELSE /\ Len(loads) < MaxLoads
            /\ loads' = Append(loads, NewLoad("suspense"))
            /\ loadingKey' = <<Len(loads) + 1, "then">>
            /\ lastAccess' = Access("get", "raise", <<Len(loads) + 1, "then">>, TRUE)
    /\ UNCHANGED <<slot, frames, refreshQ, lastReturn, refreshesMade, clearsMade>>

\* load(relationshipName), up to its await or to its immediate return
LoadCall ==
    /\ accessesMade < MaxAccesses
    /\ accessesMade' = accessesMade + 1
    /\ IF slot # 0
       THEN /\ lastAccess' = Access("load", "value", NoPromise, FALSE)
            /\ UNCHANGED <<loadingKey, loads, frames>>
       ELSE IF loadingKey # NoPromise
       THEN /\ lastAccess' = Access("load", "await", loadingKey, FALSE)
            /\ frames' = Append(frames, [promise |-> loadingKey, own |-> FALSE,
                                         kind |-> "load"])
            /\ UNCHANGED <<loadingKey, loads>>
       ELSE /\ Len(loads) < MaxLoads
            /\ loads' = Append(loads, NewLoad("load"))
            /\ loadingKey' = <<Len(loads) + 1, "load">>
            /\ frames' = Append(frames, [promise |-> <<Len(loads) + 1, "load">>,
                                         own |-> TRUE, kind |-> "load"])
            /\ lastAccess' = Access("load", "await", <<Len(loads) + 1, "load">>, TRUE)
    /\ UNCHANGED <<slot, refreshQ, lastReturn, refreshesMade, clearsMade>>

\* loadRelationship: relationship.get answered, the slot is assigned
LoadFulfil(n) ==
    /\ n \in Running
    /\ slot' = n
    /\ loads' = [loads EXCEPT ![n].state = "fulfilled",
                              ![n].thenDue = (loads[n].by = "suspense")]
    /\ UNCHANGED <<loadingKey, frames, refreshQ, lastAccess, lastReturn,
                   accessesMade, refreshesMade, clearsMade>>

\* loadRelationship: relationship.get (or the lookup of the relationship) threw
LoadReject(n) ==
    /\ n \in Running
    /\ loads' = [loads EXCEPT ![n].state = "rejected"]
    /\ UNCHANGED <<slot, loadingKey, frames, refreshQ, lastAccess, lastReturn,
                   accessesMade, refreshesMade, clearsMade>>

\* the then() callback of getWithSuspense: delete self[loadingKey]
ThenCallback(n) ==
    /\ n \in 1..Len(loads)
    /\ loads[n].thenDue
    /\ loads' = [loads EXCEPT ![n].thenDue = FALSE]
    /\ loadingKey' = NoPromise
    /\ UNCHANGED <<slot, frames, refreshQ, lastAccess, lastReturn, accessesMade,
                   refreshesMade, clearsMade>>

RemoveAt(seq, i) == SubSeq(seq, 1, i - 1) \o SubSeq(seq, i + 1, Len(seq))

\* load() resumes from its await; the call that started the load deletes the
\* loading key.  A load() made by refresh() ends that refresh.
LoadResume(i) ==
    /\ i \in 1..Len(frames)
    /\ PromiseSettled(frames[i].promise)
    /\ frames' = RemoveAt(frames, i)
    /\ loadingKey' = IF frames[i].own THEN NoPromise ELSE loadingKey
    /\ lastReturn' = IF frames[i].kind = "refresh"
                     THEN <<[op |-> "refresh",
                             ok |-> loads[frames[i].promise[1]].state = "fulfilled",
                             had |-> TRUE, slot |-> slot]>>
                     ELSE lastReturn
    /\ UNCHANGED <<slot, loads, refreshQ, lastAccess, accessesMade, refreshesMade,
                   clearsMade>>

\* refresh(), up to its await of the fresh row: it notes whether the
\* relationship is loaded.
RefreshCall ==
    /\ refreshesMade < MaxRefreshes
    /\ refreshesMade' = refreshesMade + 1
    /\ refreshQ' = Append(refreshQ, slot # 0)
    /\ UNCHANGED <<slot, loadingKey, loads, frames, lastAccess, lastReturn,
                   accessesMade, clearsMade>>

\* refresh() resumes with the fresh row (or finds it gone and throws); a
\* relationship noted as loaded is deleted, its loading key too, and loaded
\* again with load().
RefreshResume(i, found) ==
    /\ i \in 1..Len(refreshQ)
    /\ refreshQ' = RemoveAt(refreshQ, i)
    /\ IF ~found
       THEN /\ lastReturn' = <<[op |-> "refresh", ok |-> FALSE,
                                had |-> refreshQ[i], slot |-> slot]>>
            /\ UNCHANGED <<slot, loadingKey, loads, frames>>
       ELSE IF ~refreshQ[i]
       THEN /\ lastReturn' = <<[op |-> "refresh", ok |-> TRUE, had |-> FALSE,
                                slot |-> slot]>>
            /\ UNCHANGED <<slot, loadingKey, loads, frames>>
       ELSE /\ Len(loads) < MaxLoads
            /\ slot' = 0
            /\ loads' = Append(loads, NewLoad("refresh"))
            /\ loadingKey' = <<Len(loads) + 1, "load">>
            /\ frames' = Append(frames, [promise |-> <<Len(loads) + 1, "load">>,
                                         own |-> TRUE, kind |-> "refresh"])
            /\ UNCHANGED lastReturn
    /\ UNCHANGED <<lastAccess, accessesMade, refreshesMade, clearsMade>>

\* if (privateProp in self) delete self[privateProp], and a variant that
\* leaves the slot alone
SlotKept(s) == s

SlotCleared(s) == IF s # 0 THEN 0 ELSE s

\* clearRelationships(), as the tail of an update() that persisted changes
ClearRelationships ==
    /\ clearsMade < MaxClears
    /\ clearsMade' = clearsMade + 1
    /\ slot' = SlotCleared(slot)
    /\ lastReturn' = <<[op |-> "update", ok |-> TRUE, had |-> slot # 0,
                        slot |-> 0, inFlight |-> Running]>>
    /\ UNCHANGED <<loadingKey, loads, frames, refreshQ, lastAccess, accessesMade,
                   refreshesMade>>

LInit ==
    /\ slot = 0
    /\ loadingKey = NoPromise
    /\ loads = << >>
    /\ frames = << >>
    /\ refreshQ = << >>
    /\ lastAccess = << >>
    /\ lastReturn = << >>
    /\ accessesMade = 0
    /\ refreshesMade = 0
    /\ clearsMade = 0

LIdle == LInit

LNext ==
    \/ GetWithSuspense /\ UNCHANGED <<qvars, tvars, cvars, evars, wvars, rvars, hvars, avars, fvars, nvars, dvars, gvars>>
    \/ LoadCall /\ UNCHANGED <<qvars, tvars, cvars, evars, wvars, rvars, hvars, avars, fvars, nvars, dvars, gvars>>
    \/ \E n \in 1..MaxLoads : LoadFulfil(n) /\ UNCHANGED <<qvars, tvars, cvars, evars, wvars, rvars, hvars, avars, fvars, nvars, dvars, gvars>>
    \/ \E n \in 1..MaxLoads : LoadReject(n) /\ UNCHANGED <<qvars, tvars, cvars, evars, wvars, rvars, hvars, avars, fvars, nvars, dvars, gvars>>
    \/ \E n \in 1..MaxLoads : ThenCallback(n) /\ UNCHANGED <<qvars, tvars, cvars, evars, wvars, rvars, hvars, avars, fvars, nvars, dvars, gvars>>
    \/ \E i \in 1..MaxAccesses + MaxRefreshes :
           LoadResume(i) /\ UNCHANGED <<qvars, tvars, cvars, evars, wvars, rvars, hvars, avars, fvars, nvars, dvars, gvars>>
    \/ RefreshCall /\ UNCHANGED <<qvars, tvars, cvars, evars, wvars, rvars, hvars, avars, fvars, nvars, dvars, gvars>>
    \/ \E i \in 1..MaxRefreshes, found \in BOOLEAN :
           RefreshResume(i, found) /\ UNCHANGED <<qvars, tvars, cvars, evars, wvars, rvars, hvars, avars, fvars, nvars, dvars, gvars>>
    \/ ClearRelationships /\ UNCHANGED <<qvars, tvars, cvars, evars, wvars, rvars, hvars, avars, fvars, nvars, dvars, gvars>>

\* ------------------------------------------------------ with() and get()
\* The builder's eagerLoad names as dot-paths (sequences of segments), over a
\* chain of model classes: class 0 is the builder's model and a relationship
\* of class c leads to class c + 1.
Names == {"a", "b"}
Classes == 0..(MaxPathLen - 1)
Paths == UNION {[1..n -> Names] : n \in 1..MaxPathLen}
WithLists == UNION {[1..n -> Paths] : n \in 1..MaxPaths}
RelationshipTables == [Classes -> {{}, {"a"}, {"a", "b"}}]

\* relationships[name] is defined in the class's relationship table (and a
\* lookup that never misses)
KnownAlways(c, name) == TRUE

Known(c, name) == name \in relTable[c]

WithOk == [status |-> "ok", name |-> "none"]
WithError(name) == [status |-> "error", name |-> name]

\* loadNestedRelationship(models, path, relationships) on models of class c,
\* and loadNestedRelationshipOnRelatedModels(related, rest, constructor) on
\* models of class c: the outcome.
RECURSIVE LoadNestedRelationship(_, _)
LoadNestedRelationshipOnRelatedModels(c, rest) ==
    IF relTable[c] = {} THEN WithOk
    ELSE IF Len(rest) > 1 THEN LoadNestedRelationship(c, rest)
    ELSE IF ~Known(c, rest[1]) THEN WithError(rest[1])
    ELSE WithOk

LoadNestedRelationship(c, path) ==
    IF ~Known(c, path[1]) THEN WithError(path[1])
    ELSE IF Len(path) > 1 /\ related[c]
    THEN LoadNestedRelationshipOnRelatedModels(c + 1, Tail(path))
    ELSE WithOk

\* this.eagerLoad.keys(): the names given to with(), each once, in the order
\* of their first mention
EagerLoadKeys(list) ==
    LET RECURSIVE Keep(_)
        Keep(s) == IF s = << >> THEN << >>
                   ELSE LET front == Keep(SubSeq(s, 1, Len(s) - 1))
                        IN  IF s[Len(s)] \in Range(front) THEN front
                            ELSE Append(front, s[Len(s)])
    IN  Keep(list)

WithIdle == [pc |-> "idle", keys |-> << >>, skipped |-> 0, loaded |-> 0,
             status |-> "none", name |-> "none", paths |-> {}]

\* What a root record holds, as the set of dot-paths from it that lead to a
\* loaded slot.  eagerLoadFor(models, name) on the records reached by
\* `prefix` assigns their slot `name` freshly hydrated records, on which
\* nothing is loaded yet.
Under(p, at) == Len(p) > Len(at) /\ SubSeq(p, 1, Len(at)) = at

EagerLoadSlot(P, at) == {p \in P : ~Under(p, at)} \cup {at}

\* The slots loadNestedRelationship and loadNestedRelationshipOnRelatedModels
\* leave behind, tier by tier as LoadNestedRelationship above decides.
RECURSIVE NestedPaths(_, _, _, _)
OnRelatedPaths(c, rest, prefix, P) ==
    IF relTable[c] = {} THEN P
    ELSE IF Len(rest) > 1 THEN NestedPaths(c, rest, prefix, P)
    ELSE IF ~Known(c, rest[1]) THEN P
    ELSE EagerLoadSlot(P, Append(prefix, rest[1]))

NestedPaths(c, path, prefix, P) ==
    IF ~Known(c, path[1]) THEN P
    ELSE LET at == Append(prefix, path[1])
             attached == EagerLoadSlot(P, at)
         IN  IF Len(path) > 1 /\ related[c]
             THEN OnRelatedPaths(c + 1, Tail(path), at, attached)
             ELSE attached

\* get(): the select, the hydration, and loadRelationships up to its loop
WithGet ==
    /\ withQ.pc = "idle"
    /\ withQ' = IF rootCount = 0 \/ relTable[0] = {}
                THEN [WithIdle EXCEPT !.pc = "done", !.status = "ok"]
                ELSE [WithIdle EXCEPT !.pc = "loading",
                                      !.keys = EagerLoadKeys(withList)]
    /\ UNCHANGED <<withList, relTable, related, rootCount>>

\* one turn of the loop of loadRelationships over the eagerLoad names
LoadRelationshipName ==
    /\ withQ.pc = "loading"
    /\ withQ.keys # << >>
    /\ LET path == Head(withQ.keys)
           rest == Tail(withQ.keys)
           after == [withQ EXCEPT !.keys = rest,
                                  !.pc = IF rest = << >> THEN "done" ELSE "loading",
                                  !.status = IF rest = << >> THEN "ok" ELSE "none"]
       IN  IF Len(path) > 1
           THEN LET out == LoadNestedRelationship(0, path)
                IN  withQ' = IF out.status = "error"
                             THEN [withQ EXCEPT !.pc = "rejected",
                                                !.status = "error",
                                                !.name = out.name]
                             ELSE [after EXCEPT
                                      !.loaded = withQ.loaded + 1,
                                      !.paths = NestedPaths(0, path, << >>,
                                                            withQ.paths)]
           ELSE IF ~Known(0, path[1])
           THEN withQ' = [after EXCEPT !.skipped = withQ.skipped + 1]
           ELSE withQ' = [after EXCEPT
                              !.loaded = withQ.loaded + 1,
                              !.paths = EagerLoadSlot(withQ.paths, path)]
    /\ UNCHANGED <<withList, relTable, related, rootCount>>

WInit ==
    /\ withList \in WithLists
    /\ relTable \in RelationshipTables
    /\ related \in [0..(MaxPathLen - 2) -> BOOLEAN]
    /\ rootCount \in {0, 1}
    /\ withQ = WithIdle

WIdle ==
    /\ withList = << >>
    /\ relTable = [c \in Classes |-> {}]
    /\ related = [c \in 0..(MaxPathLen - 2) |-> FALSE]
    /\ rootCount = 0
    /\ withQ = WithIdle

WNext ==
    \/ WithGet /\ UNCHANGED <<qvars, tvars, cvars, evars, lvars, rvars, hvars, avars, fvars, nvars, dvars, gvars>>
    \/ LoadRelationshipName /\ UNCHANGED <<qvars, tvars, cvars, evars, lvars, rvars, hvars, avars, fvars, nvars, dvars, gvars>>

\* ------------------------------------------------------------------ records
\* One record of a model class.  An attribute map is a function from the
\* keys it holds to values; 0 stands for null/undefined, and a key a map does
\* not hold reads as 0.
Fields == {"id", "name", "slug", "created_at", "updated_at"}
UserFields == {"name", "slug"}
UserValues == 1..MaxValue
InsertedId == 1
Now == MaxValue + MaxValue + 1
NoAttributes == [f \in {} |-> 0]

Val(map, f) == IF f \in DOMAIN map THEN map[f] ELSE 0

\* ModelClass.generateSlug(sourceField): a slug is not the name it comes from
GenerateSlug(name) == MaxValue + name

\* getTimestampConfig(): the timestamp columns, if enabled
TimestampFields == IF timestamps THEN {"created_at", "updated_at"} ELSE {}
UpdatedAt == IF timestamps THEN {"updated_at"} ELSE {}

\* The rows a select can hydrate a record from: the slug column is null or
\* holds the slug of the name.
Rows ==
    {[f \in {"id", "name", "slug"} \cup TimestampFields |->
         CASE f = "id" -> InsertedId
           [] f = "name" -> n
           [] f = "slug" -> IF s = 1 THEN GenerateSlug(n) ELSE 0
           [] OTHER -> Now] : n \in UserValues, s \in {0, 1}}

\* getDirty(): the keys of _attributes whose value differs from _original,
\* and one that reports every key
GetDirtyAll(a, o) == DOMAIN a

GetDirty(a, o) == {f \in DOMAIN a : a[f] # Val(o, f)}

\* _original = { ...this._attributes }, and a body that forgets it
KeepOriginal(a, o) == o

SyncOriginal(a, o) == a

\* if (!self._exists) throw ..., and a call that never checks
ExistsNotChecked(e) == TRUE

ExistsChecked(e) == e

\* generateSlugIfNeeded(): the attribute map after it
GenerateSlugIfNeeded(a) ==
    IF ~hasSlug THEN a
    ELSE IF Val(a, "slug") # 0 THEN a
    ELSE IF Val(a, "name") = 0 THEN a
    ELSE Put(a, "slug", GenerateSlug(a["name"]))

WithAll(a, fs, v) == [f \in (DOMAIN a) \cup fs |-> IF f \in fs THEN v ELSE a[f]]

\* The body of insert(), update() or delete() up to its await of the
\* adapter (or to its return, when update() finds nothing dirty): the
\* attribute map after it and the frame, with the statement it sends if any.
StartBody(a, o, fr) ==
    CASE fr.kind = "insert" ->
             LET a1 == WithAll(a, TimestampFields, Now)
             IN  [attrs |-> a1,
                  frame |-> [fr EXCEPT !.pc = "sent", !.stmts = 1,
                                       !.cols = DOMAIN a1, !.data = a1],
                  stmt |-> <<[kind |-> "insert", cols |-> DOMAIN a1]>>]
      [] fr.kind = "update" ->
             LET dirtyFields == GetDirty(a, o)
                 a1 == WithAll(a, UpdatedAt, Now)
                 cols == dirtyFields \cup UpdatedAt
             IN  IF dirtyFields = {}
                 THEN [attrs |-> a,
                       frame |-> [fr EXCEPT !.pc = "done", !.dirtyAfter = {},
                                            !.synced = \A f \in Fields :
                                                          Val(a, f) = Val(o, f)],
                       stmt |-> << >>]
                 ELSE [attrs |-> a1,
                       frame |-> [fr EXCEPT !.pc = "sent", !.stmts = 1,
                                            !.cols = cols,
                                            !.data = [f \in cols |-> a1[f]]],
                       stmt |-> <<[kind |-> "update", cols |-> cols]>>]
      [] OTHER ->
             [attrs |-> a,
              frame |-> [fr EXCEPT !.pc = "sent", !.stmts = 1,
                                   !.cols = {"id"}],
              stmt |-> <<[kind |-> "delete", cols |-> {"id"}]>>]

NewFrame(kind, via, attrsAtCall, attrsAtUpdate) ==
    [kind |-> kind, via |-> via, pc |-> "queued", existsAtCall |-> exists,
     attrsAtCall |-> attrsAtCall, attrsAtUpdate |-> attrsAtUpdate,
     origAtCall |-> orig,
     quiet |-> \A i \in 1..Len(recOps) : recOps[i].pc \in {"done", "failed"},
     stmts |-> 0, cols |-> {}, data |-> NoAttributes, inval |-> 0,
     dirtyAfter |-> {},
     synced |-> FALSE, existsAfter |-> FALSE, error |-> "none"]

\* Every call still under way has been overlapped by something else.
Disturbed(ops) ==
    [i \in 1..Len(ops) |->
        IF ops[i].pc \in {"queued", "sent"} THEN [ops[i] EXCEPT !.quiet = FALSE]
        ELSE ops[i]]

\* orm.queueWrite(operation): with the write queue off the body starts at
\* once, with it on the body waits for the earlier writes.
Enqueue(a, fr) ==
    IF queueOn
    THEN /\ attrs' = a
         /\ recOps' = Append(Disturbed(recOps), fr)
         /\ UNCHANGED sentStmts
    ELSE LET s == StartBody(a, orig, fr)
         IN  /\ attrs' = s.attrs
             /\ recOps' = Append(Disturbed(recOps), s.frame)
             /\ sentStmts' = sentStmts \o s.stmt

\* new ModelClass()
Construct ==
    /\ recPc = "none"
    /\ recPc' = "new"
    /\ attrs' = NoAttributes
    /\ orig' = NoAttributes
    /\ exists' = FALSE
    /\ lastCall' = <<[op |-> "construct", outcome |-> "ok"]>>
    /\ UNCHANGED <<hasSlug, timestamps, queueOn, recOps, sentStmts, invalidations,
                   callsMade, setsMade>>

\* QueryBuilder.hydrate(row)
Hydrate(row) ==
    /\ recPc = "none"
    /\ recPc' = "hydrated"
    /\ attrs' = row
    /\ orig' = row
    /\ exists' = TRUE
    /\ lastCall' = <<[op |-> "hydrate", outcome |-> "ok"]>>
    /\ dbRow' = row
    /\ UNCHANGED <<hasSlug, timestamps, queueOn, recOps, sentStmts, invalidations,
                   callsMade, setsMade, cacheOn, findCache, lastFind, findsMade>>

\* record[f] = v, through the Proxy set trap
SetField(f, v) ==
    /\ recPc # "none"
    /\ setsMade < MaxSets
    /\ setsMade' = setsMade + 1
    /\ attrs' = Put(attrs, f, v)
    /\ recOps' = Disturbed(recOps)
    /\ lastCall' = <<[op |-> "set", outcome |-> "ok"]>>
    /\ UNCHANGED <<hasSlug, timestamps, queueOn, recPc, orig, exists, sentStmts,
                   invalidations, callsMade>>

\* save()
Save ==
    /\ recPc # "none"
    /\ callsMade < MaxRecCalls
    /\ callsMade' = callsMade + 1
    /\ LET a == GenerateSlugIfNeeded(attrs)
           kind == IF ~exists THEN "insert" ELSE "update"
       IN  Enqueue(a, NewFrame(kind, "save", attrs, a))
    /\ lastCall' = <<[op |-> "save", outcome |-> "ok"]>>
    /\ UNCHANGED <<hasSlug, timestamps, queueOn, recPc, orig, exists,
                   invalidations, setsMade>>

\* update() and delete(), called directly
UpdateOrDelete(kind) ==
    /\ recPc # "none"
    /\ callsMade < MaxRecCalls
    /\ callsMade' = callsMade + 1
    /\ IF ~ExistsChecked(exists)
       THEN /\ lastCall' = <<[op |-> kind, outcome |-> "stateError"]>>
            /\ UNCHANGED <<attrs, recOps, sentStmts>>
       ELSE /\ Enqueue(attrs, NewFrame(kind, "direct", attrs, attrs))
            /\ lastCall' = <<[op |-> kind, outcome |-> "ok"]>>
    /\ UNCHANGED <<hasSlug, timestamps, queueOn, recPc, orig, exists,
                   invalidations, setsMade>>

\* The error the adapter rejects a statement with.
AdapterError == "E"

\* this.writeQueue = result.catch(() => { }): the chain goes on after a body
\* that returned and after one that threw; and a chain without the catch
WriteSettledNoCatch(fr) == fr.pc = "done"

WriteSettled(fr) == fr.pc \in {"done", "failed"}

\* A queued body starts once every earlier write has settled.
BodyStart(i) ==
    /\ i \in 1..Len(recOps)
    /\ recOps[i].pc = "queued"
    /\ \A j \in 1..(i - 1) : WriteSettled(recOps[j])
    /\ LET s == StartBody(attrs, orig, recOps[i])
       IN  /\ attrs' = s.attrs
           /\ recOps' = [recOps EXCEPT ![i] = s.frame]
           /\ sentStmts' = sentStmts \o s.stmt
    /\ UNCHANGED <<hasSlug, timestamps, queueOn, recPc, orig, exists,
                   invalidations, lastCall, callsMade, setsMade>>

\* What a statement the backend accepts leaves of the record's row: an
\* INSERT stores the data under the assigned id, an UPDATE overwrites the
\* columns it names in the row if there is one, a DELETE removes the row.
ApplyStatement(row, fr) ==
    CASE fr.kind = "insert" -> Put(fr.data, "id", InsertedId)
      [] fr.kind = "update" ->
             IF row = NoAttributes THEN row
             ELSE [f \in (DOMAIN row) \cup (DOMAIN fr.data) |->
                      IF f \in DOMAIN fr.data THEN fr.data[f] ELSE row[f]]
      [] OTHER -> NoAttributes

NoCached == << >>

\* orm.invalidateResultCache([config.table]) drops the cached find(id), and
\* a write that leaves it
FindCacheKept(fc) == fc

FindCacheInvalidated(fc) == NoCached

\* The adapter answers: the rest of the body, or its rejection.
BodyDone(i, ok) ==
    /\ i \in 1..Len(recOps)
    /\ recOps[i].pc = "sent"
    /\ IF ~ok
       THEN /\ recOps' = [recOps EXCEPT ![i].pc = "failed",
                                         ![i].error = AdapterError]
            /\ UNCHANGED <<attrs, orig, exists, invalidations, dbRow, findCache>>
       ELSE LET k == recOps[i].kind
                a1 == IF k = "insert" THEN Put(attrs, "id", InsertedId) ELSE attrs
                o1 == IF k = "delete" THEN orig ELSE SyncOriginal(a1, orig)
                e1 == CASE k = "insert" -> TRUE
                        [] k = "delete" -> FALSE
                        [] OTHER -> exists
            IN  /\ attrs' = a1
                /\ orig' = o1
                /\ exists' = e1
                /\ invalidations' = invalidations + 1
                /\ dbRow' = ApplyStatement(dbRow, recOps[i])
                /\ findCache' = FindCacheInvalidated(findCache)
                /\ recOps' = [recOps EXCEPT
                       ![i].pc = "done", ![i].inval = 1,
                       ![i].dirtyAfter = GetDirty(a1, o1),
                       ![i].synced = \A f \in Fields : Val(a1, f) = Val(o1, f),
                       ![i].existsAfter = e1]
    /\ UNCHANGED <<hasSlug, timestamps, queueOn, recPc, sentStmts, lastCall,
                   callsMade, setsMade, cacheOn, lastFind, findsMade>>

RInit ==
    /\ hasSlug \in BOOLEAN
    /\ timestamps \in BOOLEAN
    /\ queueOn \in BOOLEAN
    /\ recPc = "none"
    /\ attrs = NoAttributes
    /\ orig = NoAttributes
    /\ exists = FALSE
    /\ recOps = << >>
    /\ sentStmts = << >>
    /\ invalidations = 0
    /\ lastCall = << >>
    /\ callsMade = 0
    /\ setsMade = 0

RIdle ==
    /\ hasSlug = FALSE
    /\ timestamps = FALSE
    /\ queueOn = FALSE
    /\ recPc = "none"
    /\ attrs = NoAttributes
    /\ orig = NoAttributes
    /\ exists = FALSE
    /\ recOps = << >>
    /\ sentStmts = << >>
    /\ invalidations = 0
    /\ lastCall = << >>
    /\ callsMade = 0
    /\ setsMade = 0

RNext ==
    \/ Construct /\ UNCHANGED <<qvars, tvars, cvars, evars, lvars, wvars, hvars, avars, fvars, nvars, dvars, gvars>>
    \/ \E row \in Rows : Hydrate(row) /\ UNCHANGED <<qvars, tvars, cvars, evars, lvars, wvars, hvars, avars, nvars, dvars, gvars>>
    \/ \E f \in UserFields, v \in UserValues :
           SetField(f, v) /\ UNCHANGED <<qvars, tvars, cvars, evars, lvars, wvars, hvars, avars, fvars, nvars, dvars, gvars>>
    \/ Save /\ UNCHANGED <<qvars, tvars, cvars, evars, lvars, wvars, hvars, avars, fvars, nvars, dvars, gvars>>
    \/ \E kind \in {"update", "delete"} :
           UpdateOrDelete(kind) /\ UNCHANGED <<qvars, tvars, cvars, evars, lvars, wvars, hvars, avars, fvars, nvars, dvars, gvars>>
    \/ \E i \in 1..MaxRecCalls :
           BodyStart(i) /\ UNCHANGED <<qvars, tvars, cvars, evars, lvars, wvars, hvars, avars, fvars, nvars, dvars, gvars>>
    \/ \E i \in 1..MaxRecCalls, ok \in BOOLEAN :
           BodyDone(i, ok) /\ UNCHANGED <<qvars, tvars, cvars, evars, lvars, wvars, hvars, avars, nvars, dvars, gvars>>

\* ------------------------------------------- the cache adapters, on their own
\* The calls of the cache adapter contract made directly on a cache, with
\* the clock (Date.now()) advancing between calls or not.
CacheKeys == {1, 2, 3}
TableLists == {<<"a">>, <<"b">>, <<"a", "b">>}
TTLs == 0..MaxTTL

\* The tables a cached statement is tagged with are a function of the
\* statement, hence of its key.
TagsOf(key) ==
    CASE key = 1 -> <<"a">>
      [] key = 2 -> <<"b">>
      [] OTHER -> <<"a", "b">>

ValueOf(key) == <<key>>

\* ttl || this.defaultTTL
EffectiveTTL(ttl) == IF ttl # 0 THEN ttl ELSE defaultTTL

KeysIn(c) == {c[i].key : i \in 1..Len(c)}

RowEntries(rc) ==
    {<<t, id>> \in Tables \X Ids : t \in DOMAIN rc /\ id \in DOMAIN rc[t]}

\* LocalStorageResultCache.evictOldest(): the first entry, in Map order,
\* with the smallest createdAt, deleted from the stored maps.
LsEvictOldest(cs) ==
    IF cs.cache = << >> THEN cs
    ELSE LET c == cs.cache
             i == CHOOSE i \in 1..Len(c) :
                      /\ \A j \in 1..Len(c) : c[i].createdAt <= c[j].createdAt
                      /\ \A j \in 1..(i - 1) : c[j].createdAt > c[i].createdAt
         IN  CacheDelete(cs, c[i].key, c[i].tags)

\* LocalStorageResultCache.set(key, value, tags, ttl) at instant now: the
\* maps are read, evictOldest() deletes from the stored maps, and then the
\* maps read at the start, with the new entry, are saved over them.
LsSet(cs, key, value, tags, now, ttl) ==
    LET queries == cs.cache
        tags0 == cs.tagMap
        saved == IF Len(queries) >= CacheMaxSize /\ IndexOf(queries, key) = 0
                 THEN LsEvictOldest(cs) ELSE cs
        entry == [key |-> key, value |-> value, tags |-> tags,
                  expiresAt |-> IF ttl # 0 THEN now + ttl ELSE 0,
                  createdAt |-> now]
        i == IndexOf(queries, key)
    IN  [saved EXCEPT !.cache = IF i = 0 THEN Append(queries, entry)
                                ELSE [queries EXCEPT ![i] = entry],
                      !.tagMap = AddToTags(tags0, key, tags)]

\* LocalStorageResultCache.get(key) at instant now: the stored maps after
LsGetAfter(cs, key, now) ==
    LET i == IndexOf(cs.cache, key) IN
    IF i = 0 THEN cs
    ELSE IF cs.cache[i].expiresAt # 0 /\ now > cs.cache[i].expiresAt
    THEN CacheDelete(cs, key, cs.cache[i].tags)
    ELSE cs

QueryId(key) == <<"query", key>>
RowId(table, id) == <<"row", table, id>>

Touched(key, byGet) ==
    Put(touch, key, [seq |-> opsMade + 1, at |-> clock, byGet |-> byGet])

Counted ==
    /\ opsMade < MaxCacheOps
    /\ opsMade' = opsMade + 1

QuerySet(key, ttl, after) ==
    /\ SetCacheState(after)
    /\ touch' = Touched(key, FALSE)
    /\ stored' = Put(stored, QueryId(key), [at |-> clock, ttl |-> EffectiveTTL(ttl)])
    /\ lastOp' = <<[op |-> "set", id |-> QueryId(key), now |-> clock,
                    hit |-> FALSE,
                    atCapacity |-> Len(cache) >= CacheMaxSize /\ key \notin KeysIn(cache),
                    before |-> KeysIn(cache),
                    evicted |-> KeysIn(cache) \ KeysIn(after.cache),
                    touchBefore |-> touch]>>

QueryGet(key, hit, after) ==
    /\ SetCacheState(after)
    /\ touch' = IF hit THEN Touched(key, TRUE) ELSE touch
    /\ lastOp' = <<[op |-> "get", id |-> QueryId(key), now |-> clock,
                    hit |-> hit, atCapacity |-> FALSE, before |-> KeysIn(cache),
                    evicted |-> {}, touchBefore |-> touch]>>
    /\ UNCHANGED stored

\* cache.set(key, value, tags, ttl) on a MemoryResultCache
MemSet(key, ttl) ==
    /\ storage = "memory"
    /\ Counted
    /\ QuerySet(key, ttl, CacheSet(CacheState, key, ValueOf(key), TagsOf(key),
                                   clock, EffectiveTTL(ttl)))
    /\ UNCHANGED <<storage, clock>>

\* cache.get(key) on a MemoryResultCache
MemGet(key) ==
    /\ storage = "memory"
    /\ Counted
    /\ QueryGet(key, CacheGetHits(CacheState, key, clock),
                CacheGetAfter(CacheState, key, clock))
    /\ UNCHANGED <<storage, clock>>

\* cache.setRowById(table, id, row) on a MemoryResultCache
MemSetRowById(table, id) ==
    /\ storage = "memory"
    /\ Counted
    /\ SetCacheState(SetRowById(CacheState, table, id, [id |-> id, val |-> 1]))
    /\ stored' = Put(stored, RowId(table, id), [at |-> clock, ttl |-> defaultTTL])
    /\ lastOp' = <<[op |-> "setRowById", id |-> RowId(table, id), now |-> clock,
                    hit |-> FALSE, atCapacity |-> FALSE, before |-> KeysIn(cache),
                    evicted |-> {}, touchBefore |-> touch]>>
    /\ UNCHANGED <<storage, clock, touch>>

\* cache.getRowById(table, id) on a MemoryResultCache
MemGetRowById(table, id) ==
    /\ storage = "memory"
    /\ Counted
    /\ lastOp' = <<[op |-> "getRowById", id |-> RowId(table, id), now |-> clock,
                    hit |-> HasRow(CacheState, table, id),
                    atCapacity |-> FALSE, before |-> KeysIn(cache),
                    evicted |-> {}, touchBefore |-> touch]>>
    /\ UNCHANGED <<storage, clock, touch, stored, cache, tagMap, rowCache>>

\* cache.invalidate(tables) on a MemoryResultCache
MemInvalidate(tables) ==
    /\ storage = "memory"
    /\ Counted
    /\ SetCacheState(Invalidate(CacheState, tables))
    /\ lastOp' = <<[op |-> "invalidate", id |-> tables, now |-> clock,
                    hit |-> FALSE, atCapacity |-> FALSE, before |-> KeysIn(cache),
                    evicted |-> KeysIn(cache) \ KeysIn(Invalidate(CacheState, tables).cache),
                    touchBefore |-> touch]>>
    /\ UNCHANGED <<storage, clock, touch, stored>>

\* cache.set(key, value, tags, ttl) on a LocalStorageResultCache
StorageSet(key, ttl) ==
    /\ storage = "localStorage"
    /\ Counted
    /\ QuerySet(key, ttl, LsSet(CacheState, key, ValueOf(key), TagsOf(key),
                                clock, EffectiveTTL(ttl)))
    /\ UNCHANGED <<storage, clock>>

\* cache.get(key) on a LocalStorageResultCache
StorageGet(key) ==
    /\ storage = "localStorage"
    /\ Counted
    /\ QueryGet(key, CacheGetHits(CacheState, key, clock),
                LsGetAfter(CacheState, key, clock))
    /\ UNCHANGED <<storage, clock>>

\* Date.now() moves on by a millisecond
Tick ==
    /\ clock < MaxClock
    /\ clock' = clock + 1
    /\ UNCHANGED <<storage, lastOp, touch, stored, opsMade, cache, tagMap, rowCache>>

HInit ==
    /\ storage \in {"memory", "localStorage"}
    /\ lastOp = << >>
    /\ touch = << >>
    /\ stored = << >>
    /\ opsMade = 0

HIdle ==
    /\ storage = "memory"
    /\ lastOp = << >>
    /\ touch = << >>
    /\ stored = << >>
    /\ opsMade = 0

\* a cache just constructed, with or without a default TTL
HCacheInit ==
    /\ hasCacheAdapter = TRUE
    /\ disableResultCache = FALSE
    /\ cache = << >>
    /\ tagMap = << >>
    /\ rowCache = << >>
    /\ clock = 1
    /\ defaultTTL \in TTLs
    /\ dbTable = [t \in Tables |-> [i \in Ids |-> 0]]
    /\ reads = [r \in Readers |-> Idle]
    /\ write = Idle
    /\ lastDone = << >>
    /\ quietWrite = {}
    /\ readsMade = 0
    /\ writesMade = 0

HRest ==
    UNCHANGED <<hasCacheAdapter, disableResultCache, defaultTTL, dbTable, reads,
                write, lastDone, quietWrite, readsMade, writesMade,
                qvars, tvars, evars, lvars, wvars, rvars, avars, fvars, nvars, dvars, gvars>>

HNext ==
    \/ \E key \in CacheKeys, ttl \in TTLs : MemSet(key, ttl) /\ HRest
    \/ \E key \in CacheKeys : MemGet(key) /\ HRest
    \/ \E table \in Tables, id \in Ids : MemSetRowById(table, id) /\ HRest
    \/ \E table \in Tables, id \in Ids : MemGetRowById(table, id) /\ HRest
    \/ \E tables \in TableLists : MemInvalidate(tables) /\ HRest
    \/ \E key \in CacheKeys, ttl \in TTLs : StorageSet(key, ttl) /\ HRest
    \/ \E key \in CacheKeys : StorageGet(key) /\ HRest
    \/ Tick /\ HRest

\* ------------------------------------- cache adapters without row methods
\* An adapter that implements the row-level methods, the default elsewhere.
AIdle == rowMethods = TRUE

\* ------------------------------------------------------ Model.find(id)
\* The backend's row for the record's primary key and the query-level cache
\* entry of `find(id)`, the statement `SELECT * FROM t WHERE id = ? LIMIT ?`.
\* adapter.query for find(id): the row, if the backend has it
FindRows(row) == IF row = NoAttributes THEN << >> ELSE <<row>>

\* Model.find(id) awaited while no write of the record is under way:
\* cachedSelect's query-level branch, then first().
Find ==
    /\ \A i \in 1..Len(recOps) : recOps[i].pc \in {"done", "failed"}
    /\ findsMade < MaxFinds
    /\ findsMade' = findsMade + 1
    /\ LET hit == cacheOn /\ findCache # NoCached
           rows == IF hit THEN findCache[1] ELSE FindRows(dbRow)
       IN  /\ findCache' = IF cacheOn THEN <<rows>> ELSE findCache
           /\ lastFind' = <<[rows |-> rows, fromCache |-> hit,
                             after |-> Len(recOps)]>>
    /\ UNCHANGED <<cacheOn, dbRow>>

FInit ==
    /\ cacheOn \in BOOLEAN
    /\ dbRow = NoAttributes
    /\ findCache = NoCached
    /\ lastFind = << >>
    /\ findsMade = 0

FIdle ==
    /\ cacheOn = FALSE
    /\ dbRow = NoAttributes
    /\ findCache = NoCached
    /\ lastFind = << >>
    /\ findsMade = 0

\* create(data) is the constructor, the assignments and save(); the record
\* may be assigned and saved again, and looked up by find(id) at any time.
FNext ==
    \/ Construct /\ UNCHANGED <<qvars, tvars, cvars, evars, lvars, wvars, hvars, avars, fvars, nvars, dvars, gvars>>
    \/ \E f \in UserFields, v \in UserValues :
           SetField(f, v) /\ UNCHANGED <<qvars, tvars, cvars, evars, lvars, wvars, hvars, avars, fvars, nvars, dvars, gvars>>
    \/ Save /\ UNCHANGED <<qvars, tvars, cvars, evars, lvars, wvars, hvars, avars, fvars, nvars, dvars, gvars>>
    \/ \E i \in 1..MaxRecCalls :
           BodyStart(i) /\ UNCHANGED <<qvars, tvars, cvars, evars, lvars, wvars, hvars, avars, fvars, nvars, dvars, gvars>>
    \/ \E i \in 1..MaxRecCalls, ok \in BOOLEAN :
           BodyDone(i, ok) /\ UNCHANGED <<qvars, tvars, cvars, evars, lvars, wvars, hvars, avars, nvars, dvars, gvars>>
    \/ Find /\ UNCHANGED <<qvars, tvars, cvars, evars, lvars, wvars, rvars, hvars, avars, nvars, dvars, gvars>>

\* ------------------------------------------------- nested with() paths
\* One dot-path given to with(), of `segments` relationship names; tier t is
\* the t-th name.  Records are written by their ids; a relationship slot is
\* [many |-> FALSE, val |-> <<x>>] for a single record x (0 for null or an
\* unset slot) and [many |-> TRUE, val |-> list] for a one-to-many list.
RecordIds == {1, 2}
RootLists == {<<1>>, <<1, 2>>}
Unset == [many |-> FALSE, val |-> <<0>>]
SingleSlots == {[many |-> FALSE, val |-> <<x>>] : x \in {0} \cup RecordIds}
ListSlots == {[many |-> TRUE, val |-> l] : l \in {<< >>, <<2>>, <<1, 2>>}}
Tiers == 1..MaxPathLen

\* what one eagerLoadFor call leaves in the slots of the models it is given
Assignments(models) ==
    {f \in [RecordIds -> SingleSlots] \cup [RecordIds -> ListSlots] :
        \A r \in RecordIds \ Range(models) : f[r] = Unset}

\* getRelatedModelsFromLoadedRelationship(parentModels, relationName), and a
\* variant that pushes a list's first record only
RECURSIVE GetRelatedFirstOnly(_, _)
GetRelatedFirstOnly(parentModels, loaded) ==
    IF parentModels = << >> THEN << >>
    ELSE LET loadedData == loaded[Head(parentModels)]
             rest == GetRelatedFirstOnly(Tail(parentModels), loaded)
         IN  IF loadedData.val = << >> \/ loadedData.val[1] = 0 THEN rest
             ELSE <<loadedData.val[1]>> \o rest

RECURSIVE GetRelatedModelsFromLoadedRelationship(_, _)
GetRelatedModelsFromLoadedRelationship(parentModels, loaded) ==
    IF parentModels = << >> THEN << >>
    ELSE LET loadedData == loaded[Head(parentModels)]
             rest == GetRelatedModelsFromLoadedRelationship(Tail(parentModels),
                                                            loaded)
         IN  IF loadedData.many THEN loadedData.val \o rest
             ELSE IF loadedData.val[1] # 0 THEN loadedData.val \o rest
             ELSE rest

\* relatedModels.filter(model => model != null)
ValidRelatedModels(relatedModels) == SelectSeq(relatedModels, LAMBDA m : m # 0)

NestedIdle == [pc |-> "idle", tier |-> 0, skipped |-> FALSE]

\* The look-up of the tier's relationship and the call of its eagerLoadFor
\* on the models, up to the await: loadNestedRelationship for a name that
\* still holds a dot, the final branch of
\* loadNestedRelationshipOnRelatedModels for the last one.
EnterTier(log, models, t, known) ==
    IF ~known
    THEN /\ nested' = [pc |-> "rejected", tier |-> t, skipped |-> FALSE]
         /\ loadCalls' = log
    ELSE /\ nested' = [pc |-> "awaiting", tier |-> t, skipped |-> FALSE]
         /\ loadCalls' = Append(log, [tier |-> t, models |-> models, done |-> FALSE])

\* loadRelationships reaches the dotted name: loadNestedRelationship(models,
\* relationName, relationships)
NestedStart ==
    /\ nested.pc = "idle"
    /\ \E known \in BOOLEAN : EnterTier(loadCalls, rootModels, 1, known)
    /\ UNCHANGED <<segments, rootModels, slotsOf>>

\* The awaited eagerLoadFor returns, having assigned the slots; the loader
\* goes on to the next tier, if any, up to its next await.
EagerLoadReturn ==
    /\ nested.pc = "awaiting"
    /\ LET t == nested.tier
           call == loadCalls[Len(loadCalls)]
           log == [loadCalls EXCEPT ![Len(loadCalls)].done = TRUE]
       IN  \E loaded \in Assignments(call.models),
              hasRelationships \in BOOLEAN, known \in BOOLEAN :
               /\ slotsOf' = [slotsOf EXCEPT ![t] = loaded]
               /\ LET relatedModels ==
                          GetRelatedModelsFromLoadedRelationship(call.models, loaded)
                      validRelatedModels == ValidRelatedModels(relatedModels)
                  IN  IF t = segments \/ validRelatedModels = << >>
                      THEN /\ nested' = [pc |-> "done", tier |-> t, skipped |-> FALSE]
                           /\ loadCalls' = log
                      ELSE IF ~hasRelationships
                      THEN /\ nested' = [pc |-> "done", tier |-> t, skipped |-> TRUE]
                           /\ loadCalls' = log
                      ELSE EnterTier(log, validRelatedModels, t + 1, known)
    /\ UNCHANGED <<segments, rootModels>>

\* The awaited eagerLoadFor rejects: the error leaves the loader.
EagerLoadThrow ==
    /\ nested.pc = "awaiting"
    /\ nested' = [nested EXCEPT !.pc = "rejected"]
    /\ UNCHANGED <<segments, rootModels, loadCalls, slotsOf>>

NInit ==
    /\ segments \in 2..MaxPathLen
    /\ rootModels \in RootLists
    /\ nested = NestedIdle
    /\ loadCalls = << >>
    /\ slotsOf = [t \in Tiers |-> [r \in RecordIds |-> Unset]]

NIdle ==
    /\ segments = 2
    /\ rootModels = <<1>>
    /\ nested = NestedIdle
    /\ loadCalls = << >>
    /\ slotsOf = [t \in Tiers |-> [r \in RecordIds |-> Unset]]

NNext ==
    \/ NestedStart /\ UNCHANGED <<qvars, tvars, cvars, evars, lvars, wvars, rvars, hvars, avars, fvars, dvars, gvars>>
    \/ EagerLoadReturn /\ UNCHANGED <<qvars, tvars, cvars, evars, lvars, wvars, rvars, hvars, avars, fvars, dvars, gvars>>
    \/ EagerLoadThrow /\ UNCHANGED <<qvars, tvars, cvars, evars, lvars, wvars, rvars, hvars, avars, fvars, dvars, gvars>>

\* ------------------------------------------------------ dialect compiler
\* A Query Structure of basic where conditions, a limit and an offset, built
\* by the query builder and compiled by the SQLite dialect.  A statement is
\* the sequence of its tokens, "?" the placeholder marker.  A where value is
\* [array |-> FALSE, items |-> <<v>>] for a scalar v and
\* [array |-> TRUE, items |-> list] for an array; an unset limit or offset
\* is << >>.
Columns == {"id"}
WhereOperators == {"=", "IN", "NOT IN", "IS"}
Scalars == {1, 2}
LimitInputs == {1, 2}
OffsetInputs == {0, 1}
ArrayValues == UNION {[1..n -> Scalars] : n \in 0..MaxInValues}
WhereValues ==
    {[array |-> FALSE, items |-> <<v>>] : v \in Scalars}
        \cup {[array |-> TRUE, items |-> l] : l \in ArrayValues}

NewQuery == [wheres |-> << >>, limitValue |-> << >>, offsetValue |-> << >>]

\* values.map(() => '?').join(', '), and a variant that writes one marker
OnePlaceholder(values) == <<"?">>

RECURSIVE Placeholders(_)
Placeholders(values) ==
    IF values = << >> THEN << >>
    ELSE IF Len(values) = 1 THEN <<"?">>
    ELSE <<"?", ",">> \o Placeholders(Tail(values))

\* The loop over query.wheres of compileSelect and compileCount: the clauses
\* joined with AND, and the values pushed on the bindings.
RECURSIVE WhereClauses(_)
WhereClauses(wheres) ==
    IF wheres = << >> THEN [sql |-> << >>, bindings |-> << >>]
    ELSE LET where == Head(wheres)
             rest == WhereClauses(Tail(wheres))
             glue == IF Tail(wheres) = << >> THEN << >> ELSE <<"AND">>
             values == where.value.items
             one == IF where.operator \in {"IN", "NOT IN"}
                    THEN [sql |-> <<where.column, where.operator, "(">>
                                      \o Placeholders(values) \o <<")">>,
                          bindings |-> values]
                    ELSE IF where.operator \in {"IS", "IS NOT"}
                    THEN [sql |-> <<where.column, where.operator, "NULL">>,
                          bindings |-> << >>]
                    ELSE [sql |-> <<where.column, where.operator, "?">>,
                          bindings |-> values]
         IN  [sql |-> one.sql \o glue \o rest.sql,
              bindings |-> one.bindings \o rest.bindings]

\* SQLiteDialect.compileSelect(query)
CompileSelect(q) ==
    LET w == WhereClauses(q.wheres)
        head == <<"SELECT", "*", "FROM", "t">>
        cond == IF q.wheres = << >> THEN << >> ELSE <<"WHERE">> \o w.sql
        lim == IF q.limitValue # << >> THEN <<"LIMIT", "?">> ELSE << >>
        off == IF q.offsetValue # << >> THEN <<"OFFSET", "?">> ELSE << >>
    IN  [sql |-> head \o cond \o lim \o off,
         bindings |-> w.bindings \o q.limitValue \o q.offsetValue]

\* SQLiteDialect.compileCount(query)
CompileCount(q) ==
    LET w == WhereClauses(q.wheres)
        head == <<"SELECT", "COUNT(*)", "as", "count", "FROM", "t">>
        cond == IF q.wheres = << >> THEN << >> ELSE <<"WHERE">> \o w.sql
    IN  [sql |-> head \o cond, bindings |-> w.bindings]

\* QueryBuilder.where(column, operator, value)
Where(column, operator, value) ==
    /\ compiled = << >>
    /\ Len(query.wheres) < MaxWheres
    /\ query' = [query EXCEPT !.wheres =
                     Append(query.wheres, [type |-> "basic", column |-> column,
                                           operator |-> operator, value |-> value])]
    /\ UNCHANGED compiled

\* QueryBuilder.limit(limit)
Limit(limit) ==
    /\ compiled = << >>
    /\ query.limitValue = << >>
    /\ query' = [query EXCEPT !.limitValue = <<limit>>]
    /\ UNCHANGED compiled

\* QueryBuilder.offset(offset)
Offset(offset) ==
    /\ compiled = << >>
    /\ query.offsetValue = << >>
    /\ query' = [query EXCEPT !.offsetValue = <<offset>>]
    /\ UNCHANGED compiled

\* get() and count() hand the structure to the dialect
Compile(kind) ==
    /\ compiled = << >>
    /\ compiled' = <<[kind |-> kind,
                      out |-> IF kind = "select" THEN CompileSelect(query)
                              ELSE CompileCount(query)]>>
    /\ UNCHANGED query

DInit ==
    /\ query = NewQuery
    /\ compiled = << >>

DIdle == DInit

DNext ==
    \/ \E column \in Columns, operator \in WhereOperators, value \in WhereValues :
           /\ value.array => operator \in {"IN", "NOT IN"}
           /\ Where(column, operator, value)
           /\ UNCHANGED <<qvars, tvars, cvars, evars, lvars, wvars, rvars, hvars, avars, fvars, nvars, gvars>>
    \/ \E limit \in LimitInputs :
           Limit(limit) /\ UNCHANGED <<qvars, tvars, cvars, evars, lvars, wvars, rvars, hvars, avars, fvars, nvars, gvars>>
    \/ \E offset \in OffsetInputs :
           Offset(offset) /\ UNCHANGED <<qvars, tvars, cvars, evars, lvars, wvars, rvars, hvars, avars, fvars, nvars, gvars>>
    \/ \E kind \in {"select", "count"} :
           Compile(kind) /\ UNCHANGED <<qvars, tvars, cvars, evars, lvars, wvars, rvars, hvars, avars, fvars, nvars, gvars>>

\* ------------------------------------------------ hydration and the cache
\* One compiled SELECT read again and again through get().  Objects live in
\* a heap and are named by their index in it, so that two holders of one
\* object are told from two holders of equal copies.  The backend's answer
\* does not change: nothing writes in between.
MaxGets == 3
MaxAssigns == 2

BackendAnswers ==
    {<< >>,
     <<[id |-> 1, val |-> 1]>>,
     <<[id |-> 1, val |-> 1], [id |-> 2, val |-> 2]>>}

AssignedValues == 1..(MaxVal + 1)

\* the row objects of an adapter answer, newly allocated
AllocRows(h, rows) ==
    [heap |-> h \o rows, refs |-> [i \in 1..Len(rows) |-> Len(h) + i]]

\* { ...row }: a new object with the row's own properties; and the row itself
SameRow(h, ref) == [heap |-> h, ref |-> ref]

SpreadRow(h, ref) == [heap |-> Append(h, h[ref]), ref |-> Len(h) + 1]

\* rows.map(row => this.hydrate(row)): per row a model whose _attributes and
\* _original are each a spread of the row
RECURSIVE HydrateRows(_, _)
HydrateRows(h, refs) ==
    IF refs = << >> THEN [heap |-> h, models |-> << >>]
    ELSE LET a == SpreadRow(h, Head(refs))
             o == SpreadRow(a.heap, Head(refs))
             rest == HydrateRows(o.heap, Tail(refs))
         IN  [heap |-> rest.heap,
              models |-> <<[attributes |-> a.ref, original |-> o.ref]>>
                             \o rest.models]

\* get(), up to its return or to the await of the adapter: cachedSelect
\* returns the array the cache holds, when it holds one
GetCall ==
    /\ getsMade < MaxGets
    /\ getsMade' = getsMade + 1
    /\ IF cacheEntry # << >>
       THEN LET out == HydrateRows(heap, cacheEntry[1])
            IN  /\ heap' = out.heap
                /\ returned' = Append(returned, [fromCache |-> TRUE,
                                                 models |-> out.models])
                /\ UNCHANGED awaiting
       ELSE /\ awaiting' = awaiting + 1
            /\ UNCHANGED <<heap, returned>>
    /\ UNCHANGED <<backendAnswer, cacheEntry, assignsMade>>

\* the adapter answers: the result array is stored in the cache and the
\* same array is hydrated
GetResume ==
    /\ awaiting > 0
    /\ awaiting' = awaiting - 1
    /\ LET result == AllocRows(heap, backendAnswer)
           out == HydrateRows(result.heap, result.refs)
       IN  /\ cacheEntry' = <<result.refs>>
           /\ heap' = out.heap
           /\ returned' = Append(returned, [fromCache |-> FALSE,
                                            models |-> out.models])
    /\ UNCHANGED <<backendAnswer, getsMade, assignsMade>>

\* record.val = v on a returned record: the Proxy set trap stores the value
\* in the record's _attributes
AssignAttribute(r, i, v) ==
    /\ assignsMade < MaxAssigns
    /\ r \in 1..Len(returned)
    /\ i \in 1..Len(returned[r].models)
    /\ assignsMade' = assignsMade + 1
    /\ heap' = [heap EXCEPT ![returned[r].models[i].attributes].val = v]
    /\ UNCHANGED <<backendAnswer, cacheEntry, returned, awaiting, getsMade>>

GInit ==
    /\ heap = << >>
    /\ backendAnswer \in BackendAnswers
    /\ cacheEntry = << >>
    /\ returned = << >>
    /\ awaiting = 0
    /\ getsMade = 0
    /\ assignsMade = 0

GIdle ==
    /\ heap = << >>
    /\ backendAnswer = << >>
    /\ cacheEntry = << >>
    /\ returned = << >>
    /\ awaiting = 0
    /\ getsMade = 0
    /\ assignsMade = 0

GNext ==
    \/ GetCall /\ UNCHANGED <<qvars, tvars, cvars, evars, lvars, wvars, rvars, hvars, avars, fvars, nvars, dvars>>
    \/ GetResume /\ UNCHANGED <<qvars, tvars, cvars, evars, lvars, wvars, rvars, hvars, avars, fvars, nvars, dvars>>
    \/ \E r \in 1..MaxGets, i \in 1..MaxId, v \in AssignedValues :
           AssignAttribute(r, i, v) /\ UNCHANGED <<qvars, tvars, cvars, evars, lvars, wvars, rvars, hvars, avars, fvars, nvars, dvars>>

\* ---------------------------------------------------------- specifications
QIdle ==
    /\ enableWriteQueue = FALSE
    /\ writeQueue = 0
    /\ submitted = 0
    /\ opChain = [k \in Ops |-> 0]
    /\ opState = [k \in Ops |-> "unsubmitted"]
    /\ opValue = [k \in Ops |-> None]
    /\ opSteps = [k \in Ops |-> 0]
    /\ startOrder = << >>

QNext ==
    \/ QueueWrite /\ UNCHANGED <<tvars, cvars, evars, lvars, wvars, rvars, hvars, avars, fvars, nvars, dvars, gvars>>
    \/ \E k \in Ops : ThenReaction(k) /\ UNCHANGED <<tvars, cvars, evars, lvars, wvars, rvars, hvars, avars, fvars, nvars, dvars, gvars>>
    \/ \E k \in Ops : BodyStep(k) /\ UNCHANGED <<tvars, cvars, evars, lvars, wvars, rvars, hvars, avars, fvars, nvars, dvars, gvars>>
    \/ \E k \in Ops : BodyFulfil(k) /\ UNCHANGED <<tvars, cvars, evars, lvars, wvars, rvars, hvars, avars, fvars, nvars, dvars, gvars>>
    \/ \E k \in Ops : BodyReject(k) /\ UNCHANGED <<tvars, cvars, evars, lvars, wvars, rvars, hvars, avars, fvars, nvars, dvars, gvars>>

InitQueue == QInit /\ TInit /\ CIdle /\ EIdle /\ LIdle /\ WIdle /\ RIdle /\ HIdle /\ AIdle /\ FIdle /\ NIdle /\ DIdle /\ GIdle

SpecQueue == InitQueue /\ [][QNext]_vars

\* The scheduling the queue relies on: a reaction of a settled promise is run
\* by the microtask loop, and a body that has started settles in the end.
QRest == UNCHANGED <<tvars, cvars, evars, lvars, wvars, rvars, hvars, avars, fvars, nvars, dvars, gvars>>

ReactionRuns(k) == ThenReaction(k) /\ QRest

BodySettles(k) == (BodyFulfil(k) \/ BodyReject(k)) /\ QRest

QueueFairness ==
    \A k \in Ops : WF_vars(ReactionRuns(k)) /\ WF_vars(BodySettles(k))

SpecQueueFair == InitQueue /\ [][QNext]_vars /\ QueueFairness

InitTxn == QIdle /\ TInit /\ CIdle /\ EIdle /\ LIdle /\ WIdle /\ RIdle /\ HIdle /\ AIdle /\ FIdle /\ NIdle /\ DIdle /\ GIdle

SpecTxn == InitTxn /\ [][TNext]_vars

InitCache == QIdle /\ inTransactionFlag = FALSE /\ TxIdle /\ CInit /\ EIdle /\ LIdle /\ WIdle /\ RIdle /\ HIdle /\ AIdle /\ FIdle /\ NIdle /\ DIdle /\ GIdle

SpecCache == InitCache /\ [][CNext]_vars

InitEager == QIdle /\ inTransactionFlag = FALSE /\ TxIdle /\ CIdle /\ EInit /\ LIdle /\ WIdle /\ RIdle /\ HIdle /\ AIdle /\ FIdle /\ NIdle /\ DIdle /\ GIdle

SpecEager == InitEager /\ [][ENext]_vars

InitLazy == QIdle /\ inTransactionFlag = FALSE /\ TxIdle /\ CIdle /\ EIdle /\ LInit /\ WIdle /\ RIdle /\ HIdle /\ AIdle /\ FIdle /\ NIdle /\ DIdle /\ GIdle

SpecLazy == InitLazy /\ [][LNext]_vars

InitWith == QIdle /\ inTransactionFlag = FALSE /\ TxIdle /\ CIdle /\ EIdle /\ LIdle /\ WInit /\ RIdle /\ HIdle /\ AIdle /\ FIdle /\ NIdle /\ DIdle /\ GIdle

SpecWith == InitWith /\ [][WNext]_vars

InitRecord == QIdle /\ inTransactionFlag = FALSE /\ TxIdle /\ CIdle /\ EIdle /\ LIdle /\ WIdle /\ RInit /\ HIdle /\ AIdle /\ FIdle /\ NIdle /\ DIdle /\ GIdle

SpecRecord == InitRecord /\ [][RNext]_vars

InitStore == QIdle /\ inTransactionFlag = FALSE /\ TxIdle /\ HCacheInit /\ EIdle /\ LIdle /\ WIdle /\ RIdle /\ HInit /\ AIdle /\ FIdle /\ NIdle /\ DIdle /\ GIdle

SpecStore == InitStore /\ [][HNext]_vars

InitPlainCache == QIdle /\ inTransactionFlag = FALSE /\ TxIdle /\ CInit /\ EIdle /\ LIdle /\ WIdle /\ RIdle /\ HIdle /\ rowMethods = FALSE /\ FIdle /\ NIdle /\ DIdle /\ GIdle

SpecPlainCache == InitPlainCache /\ [][CNext]_vars

InitRoundTrip == QIdle /\ inTransactionFlag = FALSE /\ TxIdle /\ CIdle /\ EIdle /\ LIdle /\ WIdle /\ RInit /\ HIdle /\ AIdle /\ FInit /\ NIdle /\ DIdle /\ GIdle

SpecRoundTrip == InitRoundTrip /\ [][FNext]_vars

InitNested == QIdle /\ inTransactionFlag = FALSE /\ TxIdle /\ CIdle /\ EIdle /\ LIdle /\ WIdle /\ RIdle /\ HIdle /\ AIdle /\ FIdle /\ NInit /\ DIdle /\ GIdle

SpecNested == InitNested /\ [][NNext]_vars

InitDialect == QIdle /\ inTransactionFlag = FALSE /\ TxIdle /\ CIdle /\ EIdle /\ LIdle /\ WIdle /\ RIdle /\ HIdle /\ AIdle /\ FIdle /\ NIdle /\ DInit /\ GIdle

SpecDialect == InitDialect /\ [][DNext]_vars

SpecSequential == InitCache /\ [][SeqNext]_vars

SpecOverlap == InitTxn /\ [][OverlapNext]_vars

InitHydration == QIdle /\ inTransactionFlag = FALSE /\ TxIdle /\ CIdle /\ EIdle /\ LIdle /\ WIdle /\ RIdle /\ HIdle /\ AIdle /\ FIdle /\ NIdle /\ DIdle /\ GInit

SpecHydration == InitHydration /\ [][GNext]_vars

\* ------------------------------------------------------------- claims
\* C1: with the write queue enabled, the body of Wk starts only after the
\* bodies of W1..Wk-1 have all settled: bodies start in submission order and
\* at most one queued body is executing at any time.
C1_FifoStart ==
    enableWriteQueue =>
        /\ \A k \in Ops : opState[k] = "running" =>
               \A j \in 1..(k - 1) : opState[j] \in Settled
        /\ \A i \in 1..Len(startOrder) : startOrder[i] = i
        /\ Cardinality({k \in Ops : opState[k] = "running"}) <= 1

\* W2 is executing after a slow W1 settled, with W3 still held back.
C1_Witness ==
    /\ enableWriteQueue
    /\ opSteps[1] = MaxBodySteps
    /\ opState[1] \in Settled
    /\ opState[2] = "running"
    /\ opState[3] = "waiting"

\* C2: with the write queue enabled, a rejected operation rejects its own
\* caller with its own error, the operations queued after it still run, and
\* every caller's promise settles with its own operation's outcome.
C2_OwnOutcome ==
    enableWriteQueue =>
        /\ \A k \in Ops : opState[k] \in Settled =>
               /\ \E i \in 1..Len(startOrder) : startOrder[i] = k
               /\ opValue[k] = <<IF opState[k] = "fulfilled" THEN "ok" ELSE "err", k>>
        /\ \A k \in Ops :
               (opState[k] = "waiting" /\ opChain[k] # 0
                   /\ opState[opChain[k]] = "rejected")
               => ENABLED (ThenReaction(k) /\ opState'[k] = "running")

\* W1 rejected with E1, then W2 ran and fulfilled with its own value.
C2_Witness ==
    /\ enableWriteQueue
    /\ opState[1] = "rejected" /\ opValue[1] = <<"err", 1>>
    /\ opState[2] = "fulfilled" /\ opValue[2] = <<"ok", 2>>
    /\ opState[3] = "rejected" /\ opValue[3] = <<"err", 3>>
\* Number of entries of the current nest's log that are calls of `name`.
LogCount(name) == Cardinality({i \in 1..Len(txLog) : txLog[i][1] = name})
NestSettled == txCalls > 0 /\ Depth(MainTask) = 0
LastCall == txDone[Len(txDone)]

\* C3: a transaction() call made while the adapter reports no open
\* transaction calls beginTransaction exactly once and before the callback
\* starts; a callback fulfilling with v gives one commit, no rollback and a
\* call fulfilling with v; a callback rejecting with E gives one rollback, no
\* commit and a call rejecting with E.
C3_TxnBoundary ==
    /\ \A i \in 1..Len(txLog) : txLog[i] = <<"callback", 1>> =>
           /\ i = 2
           /\ txLog[1] = <<"begin", 1>>
    /\ (NestSettled /\ ~LastCall.was) =>
           /\ LogCount("begin") = 1
           /\ LastCall.cb[1] = "ok" =>
                  /\ LogCount("commit") = 1
                  /\ LogCount("rollback") = 0
                  /\ LastCall.result = LastCall.cb
           /\ LastCall.cb[1] = "err" =>
                  /\ LogCount("rollback") = 1
                  /\ LogCount("commit") = 0
                  /\ LastCall.result = LastCall.cb

\* A second top-level call has rejected with its callback's own error after
\* a rollback.
C3_Witness ==
    /\ NestSettled
    /\ txCalls = 2
    /\ ~LastCall.was
    /\ LastCall.cb = <<"err", 1>>
    /\ LastCall.result = <<"err", 1>>
    /\ txLog = << <<"begin", 1>>, <<"callback", 1>>, <<"rollback", 1>> >>

\* C4: transaction() calls made from inside a transaction callback issue no
\* beginTransaction, commit or rollback; the whole nest performs exactly one
\* beginTransaction and exactly one of commit/rollback, both by the outermost
\* call; an error thrown by an inner callback reaches the outer callback.
C4_NestState ==
    /\ \A i \in 1..Len(txLog) :
           txLog[i][1] \in {"begin", "commit", "rollback"} => txLog[i][2] = 1
    /\ LogCount("begin") <= 1
    /\ LogCount("commit") + LogCount("rollback") <= 1
    /\ NestSettled =>
           /\ LogCount("begin") = 1
           /\ LogCount("commit") + LogCount("rollback") = 1

C4_InnerErrorStep ==
    (/\ Len(txDone') = Len(txDone) + 1
     /\ txDone'[Len(txDone')].depth > 1
     /\ txDone'[Len(txDone')].cb[1] = "err")
    => /\ Depth(MainTask)' = txDone'[Len(txDone')].depth - 1
       /\ Top(MainTask)'.pc = "callback"
       /\ Top(MainTask)'.exc = txDone'[Len(txDone')].cb

C6_WriteStep ==
    (hasCacheAdapter /\ write.pc = "sent" /\ write.ok /\ write.quiet
         /\ write'.pc = "idle")
    => /\ \A i \in 1..Len(cache') : write.table \notin Range(cache'[i].tags)
       /\ write.table \notin DOMAIN rowCache'

C6_WriteClearsTable == [][C6_WriteStep]_vars

C8_ReadAfterWriteFresh ==
    \A r \in Readers :
        (reads[r].pc # "idle" /\ reads[r].afterWrite) =>
            /\ ~reads[r].fromCache
            /\ reads[r].adapterCalls = 1

\* C9: a cachedSelect call made while a transaction is open, or caching is
\* disabled, or no cache adapter is configured, goes to adapter.query and
\* neither consults nor modifies the cache.
C9_BypassState ==
    \A r \in Readers :
        (reads[r].pc # "idle" /\ reads[r].bypass) =>
            /\ reads[r].route = "bypass"
            /\ ~reads[r].touched
            /\ reads[r].adapterCalls = 1
            /\ reads[r].pc = "done" =>
                   reads[r].rows = reads[r].fetched

C9_BypassStep ==
    \A r \in Readers :
        (reads'[r] # reads[r] /\ reads'[r].bypass) =>
            UNCHANGED <<cache, tagMap, rowCache>>

C9_BypassUntouched == []C9_BypassState /\ [][C9_BypassStep]_vars

\* A read made inside a transaction has returned the backend's rows although
\* the cache holds an entry for the very same statement.
C9_Witness ==
    \E r \in Readers :
        /\ reads[r].pc = "done"
        /\ reads[r].bypass
        /\ inTransactionFlag
        /\ hasCacheAdapter /\ ~disableResultCache
        /\ IndexOf(cache, MakeCacheKey(reads[r].stmt)) # 0

StatementCount == Len(eager.stmts)

SomeKey == \E i \in 1..Len(parents) : parents[i].key # 0

\* C10 (as claimed): every eagerLoadFor issues exactly one statement (two for
\* the pivot variant) whatever the number of parents, and at most that many
\* when there is no parent or every key is null.
C10_ConstantStatements ==
    eager.pc = "done" =>
        LET c == IF eager.variant = "belongsToMany" THEN 2 ELSE 1
        IN  IF ~SomeKey
            THEN StatementCount <= c
            ELSE StatementCount = c

\* C10 (amended): the number of statements of an eagerLoadFor depends on the
\* variant and on which keys are present, never on the number of parents:
\* none when no parent has a non-null key; otherwise one for hasOne, hasMany
\* and belongsTo; for the pivot variant the pivot read, followed by the
\* related-table read only when the pivot read returned rows; for the
\* polymorphic variant one per mapped discriminator value carried by a parent
\* with a non-null foreign key.  Each statement is an IN over distinct
\* non-null keys.
C10_BatchedStatements ==
    eager.pc = "done" =>
        LET keys == KeysOf(parents)
            some == SomeKey
            v == eager.variant
        IN  /\ v \in {"hasOne", "hasMany", "belongsTo"} =>
                   StatementCount = IF some THEN 1 ELSE 0
            /\ v = "belongsToMany" =>
                   StatementCount =
                       IF ~some THEN 0
                       ELSE IF \E i \in 1..Len(pivotDb) :
                                   pivotDb[i].p \in Range(keys) \ {0}
                            THEN 2 ELSE 1
            /\ v = "morphTo" =>
                   /\ StatementCount =
                          Cardinality({d \in DOMAIN MorphMap :
                              \E i \in 1..Len(parents) :
                                  parents[i].type = d /\ parents[i].key # 0})
                   /\ StatementCount <= Cardinality(DOMAIN MorphMap)
            /\ \A k \in 1..StatementCount :
                   LET ids == eager.stmts[k].ids
                   IN  /\ Len(ids) > 0
                       /\ 0 \notin Range(ids)
                       /\ Cardinality(Range(ids)) = Len(ids)

\* A polymorphic eager load over parents of two mapped discriminator values
\* has returned, after one statement per value.
C10_Witness ==
    /\ eager.pc = "done"
    /\ eager.variant = "morphTo"
    /\ Len(parents) >= 2
    /\ StatementCount = 2
    /\ \A i \in 1..Len(parents) : parents[i].loaded

\* The rows of a related table that a parent's key selects, by the variant.
MatchingRows(p, v) ==
    IF p.key = 0 THEN << >>
    ELSE CASE v \in {"hasOne", "hasMany"} -> SelectIn(relDb["a"], "fk", <<p.key>>)
           [] v = "belongsTo" -> SelectIn(relDb["a"], "id", <<p.key>>)
           [] v = "belongsToMany" ->
                  LET Linked(row) == \E i \in 1..Len(pivotDb) :
                                         /\ pivotDb[i].p = p.key
                                         /\ pivotDb[i].r = row.id
                  IN  SelectSeq(relDb["a"], Linked)
           [] v = "morphTo" ->
                  IF p.type \in DOMAIN MorphMap
                  THEN SelectIn(relDb[MorphMap[p.type]], "id", <<p.key>>)
                  ELSE << >>
           [] OTHER -> << >>

\* C11: once eagerLoadFor has returned, every parent's private slot is set:
\* to the related record(s) its key selects, or to the default (null for the
\* single-valued variants, the empty list for the collections) when nothing
\* matches, for all five variants.
C11_SlotsSet ==
    eager.pc = "done" =>
        \A i \in 1..Len(parents) :
            LET p == parents[i]
                m == MatchingRows(p, eager.variant)
            IN  /\ p.loaded
                /\ IF eager.variant \in {"hasMany", "belongsToMany"}
                   THEN Range(p.value) = Range(m)
                   ELSE IF m = << >> THEN p.value = << >>
                        ELSE Len(p.value) = 1 /\ p.value[1] \in Range(m)

\* C12: an access (getWithSuspense or load) made while the relationship is
\* unloaded and no load is in flight starts exactly one load and raises or
\* awaits its promise; one made while a load is in flight starts none and
\* raises or awaits the promise of that load; one made after the load has
\* fulfilled returns the value without raising; and at no time are two loads
\* of the relationship in flight.
C12_SingleLoad ==
    /\ Cardinality(Running) <= 1
    /\ lastAccess # << >> =>
           LET a == lastAccess[1] IN
           /\ (a.slotBefore = 0 /\ a.runningBefore = {}) =>
                  /\ a.started
                  /\ a.outcome \in {"raise", "await"}
           /\ (a.slotBefore = 0 /\ a.runningBefore # {}) =>
                  /\ ~a.started
                  /\ a.outcome \in {"raise", "await"}
                  /\ a.promise[1] \in a.runningBefore
           /\ a.slotBefore # 0 =>
                  /\ ~a.started
                  /\ a.outcome = "value"

\* The parent set a path's segment t is loaded on is non-empty: the select
\* returned rows, and every earlier segment is known and yields related models.
NonEmptyAt(path, t) ==
    /\ rootCount > 0
    /\ \A u \in 1..(t - 1) : path[u] \in relTable[u - 1] /\ related[u - 1]

\* The segments absent from the relationship table of their tier's model, the
\* parent set at that tier being non-empty.
Offending(path) ==
    {t \in 1..Len(path) : NonEmptyAt(path, t) /\ path[t] \notin relTable[t - 1]}

Rejected(path) ==
    {t \in Offending(path) : Len(path) > 1 /\ relTable[t - 1] # {}
                                /\ relTable[0] # {}}

ReturnedWithLoaded(op) ==
    /\ lastReturn' # lastReturn
    /\ lastReturn'[1].op = op
    /\ lastReturn'[1].ok
    /\ lastReturn'[1].had

\* C17 (as claimed): after a successful update() that persisted changes, and
\* after a successful refresh(), a relationship slot that was loaded is
\* cleared.
C17_StepCleared ==
    (ReturnedWithLoaded("update") \/ ReturnedWithLoaded("refresh")) => slot' = 0

C17_StepClearedOrReloaded ==
    /\ ReturnedWithLoaded("update") => slot' = 0
    /\ (ReturnedWithLoaded("refresh") /\ clearsMade = 0 /\ refreshesMade = 1) =>
           /\ slot' # 0
           /\ \E n \in 1..Len(loads) :
                  loads[n].by = "refresh" /\ loads[n].state = "fulfilled"

Dirty == GetDirty(attrs, orig)
Differing == {f \in Fields : Val(attrs, f) # Val(orig, f)}
SavedOk(i) ==
    /\ recOps[i].via = "save"
    /\ recOps[i].pc = "done"

C14_Step ==
    /\ (recPc = "none" /\ recPc' = "hydrated") => GetDirty(attrs', orig') = {}
    /\ \A f \in UserFields :
           (/\ setsMade' = setsMade + 1
            /\ Dirty = {}
            /\ Val(attrs', f) # Val(attrs, f))
           => GetDirty(attrs', orig') = {f}

C14_State ==
    /\ Dirty = Differing
    /\ \A i \in 1..Len(recOps) :
           SavedOk(i) => recOps[i].dirtyAfter = {} /\ recOps[i].synced

\* C14: right after hydration the dirty set is empty; assigning a different
\* value to one field F of a clean record makes the dirty set exactly {F};
\* when a save() has succeeded the dirty set is empty and the original
\* equals the current attributes; and the dirty set is always the set of
\* fields whose current value differs from the original.
C14_DirtyTracking == [][C14_Step]_vars /\ []C14_State

\* a hydrated record was assigned, saved by an UPDATE that was sent, and the
\* save has returned
C14_Witness ==
    /\ recPc = "hydrated"
    /\ setsMade > 0
    /\ \E i \in 1..Len(recOps) :
           SavedOk(i) /\ recOps[i].kind = "update" /\ recOps[i].stmts = 1

\* --------------------------------------------------------------- C15
\* A save() no other call or assignment overlapped, whose body has started.
QuietSave(i) ==
    /\ recOps[i].via = "save"
    /\ recOps[i].quiet
    /\ recOps[i].pc # "queued"

DiffKeys(a, o) == {f \in Fields : Val(a, f) # Val(o, f)}
Stamp == IF timestamps THEN {"updated_at"} ELSE {}

\* what such a save() must have done, given the dirty set it is measured by
SaveSends(i, dirty) ==
    IF ~recOps[i].existsAtCall
    THEN /\ recOps[i].kind = "insert"
         /\ recOps[i].stmts = 1
         /\ recOps[i].pc = "done" => recOps[i].existsAfter
    ELSE /\ recOps[i].kind = "update"
         /\ IF dirty = {}
            THEN recOps[i].stmts = 0 /\ recOps[i].inval = 0
            ELSE recOps[i].stmts = 1 /\ recOps[i].cols = dirty \cup Stamp

StatementsMatch ==
    /\ Len(sentStmts) = Cardinality({i \in 1..Len(recOps) : recOps[i].stmts = 1})
    /\ \A n \in 1..Len(sentStmts) :
           \E i \in 1..Len(recOps) :
               /\ recOps[i].stmts = 1
               /\ sentStmts[n] = [kind |-> recOps[i].kind, cols |-> recOps[i].cols]

CalledOnMissing ==
    /\ callsMade' = callsMade + 1
    /\ lastCall'[1].op \in {"update", "delete"}
    /\ ~exists

C16_Step ==
    CalledOnMissing =>
        /\ lastCall'[1].outcome = "stateError"
        /\ UNCHANGED <<attrs, orig, exists, recOps, sentStmts, invalidations>>

DeletedOk(i) == recOps[i].kind = "delete" /\ recOps[i].pc = "done"

\* C16: update() and delete() called on a record whose existence flag is
\* false reject with a state error, send no statement, enqueue nothing and
\* leave the record and the cache as they were; a delete() that succeeded
\* has left the flag false.
C16_MissingRejected ==
    /\ [][C16_Step]_vars
    /\ [](\A i \in 1..Len(recOps) : DeletedOk(i) => ~recOps[i].existsAfter)

\* a call on the record was rejected with the state error after a delete()
\* of it had succeeded
C16_Witness ==
    /\ lastCall # << >>
    /\ lastCall[1].outcome = "stateError"
    /\ ~exists
    /\ \E i \in 1..Len(recOps) : DeletedOk(i)

\* --------------------------------------------------------------- C18
QueryBounded == Len(cache) <= CacheMaxSize
RowsBounded == Cardinality(RowEntries(rowCache)) <= CacheMaxSize

\* C18: on a MemoryResultCache made with capacity maxSize the number of
\* query-level entries never exceeds maxSize and the number of row-level
\* entries never exceeds the capacity either, whatever calls are made.
C18_BothBounded == storage = "memory" => QueryBounded /\ RowsBounded

\* the query-level half alone
C18_QueryBounded == storage = "memory" => QueryBounded

\* --------------------------------------------------------------- C19
SetAtCapacity ==
    /\ lastOp # << >>
    /\ lastOp[1].op = "set"
    /\ lastOp[1].atCapacity

\* key e was last used no later than key k, by the instants of their last
\* set or successful get
NotNewer(t, e, k) == t[e].at <= t[k].at

\* key e was read by get after the last access of key k
ReadAfter(t, e, k) == t[e].byGet /\ t[e].seq > t[k].seq

\* C19: a set of a new key on a query cache at capacity evicts exactly one
\* entry, one whose last set or successful get is the oldest, and never an
\* entry that was read by get after another entry's last access.
C19_EvictsLeastRecentlyUsed ==
    SetAtCapacity =>
        LET op == lastOp[1] IN
        /\ Cardinality(op.evicted) = 1
        /\ \A e \in op.evicted : \A k \in op.before \ {e} :
               /\ NotNewer(op.touchBefore, e, k)
               /\ ~ReadAfter(op.touchBefore, e, k)

\* the same on a MemoryResultCache whose calls fall on distinct instants
C19_MemoryDistinctInstants ==
    (SetAtCapacity /\ storage = "memory") =>
        LET op == lastOp[1] IN
        /\ Cardinality(op.evicted) = 1
        /\ \A e \in op.evicted : \A k \in op.before \ {e} :
               /\ NotNewer(op.touchBefore, e, k)
               /\ op.touchBefore[e].at # op.touchBefore[k].at
                      => ~ReadAfter(op.touchBefore, e, k)

\* the same on a MemoryResultCache, ties of instants included
C19_Memory == storage = "memory" => C19_EvictsLeastRecentlyUsed

\* --------------------------------------------------------------- C20
\* the last call was a lookup of an entry made after the expiry instant the
\* entry was stored with
LookupAfterExpiry(kinds) ==
    /\ lastOp # << >>
    /\ lastOp[1].op \in kinds
    /\ lastOp[1].id \in DOMAIN stored
    /\ stored[lastOp[1].id].ttl # 0
    /\ lastOp[1].now > stored[lastOp[1].id].at + stored[lastOp[1].id].ttl

Unreferenced(id) ==
    id[1] = "query" =>
        /\ id[2] \notin KeysIn(cache)
        /\ \A t \in DOMAIN tagMap : id[2] \notin tagMap[t]

\* C20: a lookup made after the expiry instant of the entry it asks for
\* reports a miss and leaves the entry and its tag-index references
\* removed, for query-level and for row-level entries.
C20_ExpiredNeverReturned ==
    LookupAfterExpiry({"get", "getRowById"}) =>
        ~lastOp[1].hit /\ Unreferenced(lastOp[1].id)

\* the query-level half alone
C20_ExpiredQueryNeverReturned ==
    LookupAfterExpiry({"get"}) => ~lastOp[1].hit /\ Unreferenced(lastOp[1].id)

\* --------------------------------------------------------------- C21
IdsOf(rows) == {rows[i].id : i \in 1..Len(rows)}
InRead(r) == reads[r].pc \in {"await", "done"} /\ reads[r].route = "rowIn"

\* the ids of the list, in order, that some row of the set is for
RECURSIVE InOrder(_, _)
InOrder(ids, idSet) ==
    IF ids = << >> THEN << >>
    ELSE (IF Head(ids) \in idSet THEN <<Head(ids)>> ELSE << >>)
         \o InOrder(Tail(ids), idSet)

C21_State ==
    \A r \in Readers :
        InRead(r) =>
            LET rd == reads[r] IN
            /\ Range(rd.asked) \cap IdsOf(rd.cached) = {}
            /\ Range(rd.asked) \cup IdsOf(rd.cached) = Range(rd.stmt.ids)
            /\ rd.adapterCalls = (IF rd.asked = << >> THEN 0 ELSE 1)
            /\ rd.pc = "done" =>
                   /\ Len(rd.rows) = Len(InOrder(rd.stmt.ids,
                                                 IdsOf(rd.cached) \cup IdsOf(rd.fetched)))
                   /\ \A i \in 1..Len(rd.rows) :
                          /\ rd.rows[i].id =
                                 InOrder(rd.stmt.ids,
                                         IdsOf(rd.cached) \cup IdsOf(rd.fetched))[i]
                          /\ rd.rows[i] \in Range(rd.cached \o rd.fetched)

C21_Step ==
    \A r \in Readers :
        (InRead(r) /\ reads[r].pc = "await" /\ reads'[r].pc = "done") =>
            \A i \in 1..Len(reads[r].fetched) :
                /\ reads[r].stmt.table \in DOMAIN rowCache'
                /\ reads[r].fetched[i].id \in DOMAIN rowCache'[reads[r].stmt.table]
                /\ rowCache'[reads[r].stmt.table][reads[r].fetched[i].id]
                       = reads[r].fetched[i]

\* C21: a fetch of full rows by membership of the primary key in a list of
\* ids, with the cache active, asks the adapter for exactly the ids the row
\* cache does not hold, in one statement (none when nothing is missing),
\* puts the fetched rows in the row cache, and returns the cached and the
\* fetched rows in the order of the caller's ids, leaving out the ids
\* neither gave a row for.
C21_PartialHits == []C21_State /\ [][C21_Step]_vars

\* a membership fetch answered partly by the row cache and partly by the
\* adapter has returned both rows
C21_Witness ==
    \E r \in Readers :
        /\ InRead(r)
        /\ reads[r].pc = "done"
        /\ reads[r].cached # << >>
        /\ reads[r].fetched # << >>
        /\ Len(reads[r].rows) = 2

\* --------------------------------------------------------------- C22
\* C22: with a cache adapter that has no row-level methods every read,
\* fetches by primary-key equality and membership included, goes through
\* the query-level cache: a repeated identical read is answered from it,
\* without an adapter call.
C22_RepeatedReadFromQueryCache ==
    \A r \in Readers :
        (reads[r].pc = "done" /\ reads[r].repeat /\ ~reads[r].bypass) =>
            /\ reads[r].adapterCalls = 0
            /\ reads[r].fromCache

\* the same for the statements that are not full-row fetches by primary key
C22_OtherReadsFromQueryCache ==
    \A r \in Readers :
        (/\ reads[r].pc = "done" /\ reads[r].repeat /\ ~reads[r].bypass
         /\ Route(reads[r].stmt) = "query") =>
            /\ reads[r].adapterCalls = 0
            /\ reads[r].fromCache

\* --------------------------------------------------------------- C23
\* C23: whatever set, get, eviction and invalidate calls were made, every
\* query-level entry in the cache is in the tag index set of each of the
\* tags it was stored under.
C23_TagIndex ==
    \A i \in 1..Len(cache) :
        \A tag \in Range(cache[i].tags) :
            /\ tag \in DOMAIN tagMap
            /\ cache[i].key \in tagMap[tag]

\* an entry stored under two tags is in the cache after a set at capacity
\* has evicted another entry
C23_Witness ==
    /\ SetAtCapacity
    /\ lastOp[1].evicted # {}
    /\ \E i \in 1..Len(cache) : Len(cache[i].tags) = 2

\* --------------------------------------------------------------- C24
\* create(A) has completed, nothing else was done to the record, and a
\* find(id) was made after it
FoundAfterCreate ==
    /\ recPc = "new"
    /\ Len(recOps) = 1
    /\ recOps[1].via = "save" /\ recOps[1].kind = "insert"
    /\ recOps[1].pc = "done" /\ recOps[1].quiet
    /\ lastFind # << >>
    /\ lastFind[1].after = 1

\* the attribute map with the id the backend assigned and the timestamps
WithIdAndTimestamps(a) ==
    [f \in (DOMAIN a) \cup {"id"} \cup (IF timestamps THEN {"created_at", "updated_at"} ELSE {}) |->
        CASE f = "id" -> InsertedId
          [] f \in {"created_at", "updated_at"} /\ timestamps -> Now
          [] OTHER -> a[f]]

\* C24 as stated: the record find(id) returns after create(A) has the
\* attributes A with the assigned id and the timestamps, cache on or off.
C24_RoundTrip ==
    FoundAfterCreate =>
        lastFind[1].rows = <<WithIdAndTimestamps(recOps[1].attrsAtCall)>>

\* C24 amended: the same with A as save() leaves it, a missing slug filled
\* in from the name.
C24_RoundTripWithSlug ==
    FoundAfterCreate =>
        lastFind[1].rows = <<WithIdAndTimestamps(recOps[1].attrsAtUpdate)>>

\* with the cache on, a find(id) that found nothing was cached before the
\* create, and a find(id) after it has returned the record
C24_Witness ==
    /\ FoundAfterCreate
    /\ cacheOn
    /\ findsMade = 2
    /\ ~lastFind[1].fromCache
    /\ lastFind[1].rows # << >>
    /\ "name" \in DOMAIN recOps[1].attrsAtCall


\* --------------------------------------------------------------- C25
\* Load n has settled and every reaction to its settling has run: the then()
\* callback of the getter that started it is not pending, and the load() or
\* refresh() call that started it has resumed from its await.
SettledAndReacted(n) ==
    /\ loads[n].state # "running"
    /\ ~loads[n].thenDue
    /\ \A i \in 1..Len(frames) : ~(frames[i].own /\ frames[i].promise[1] = n)

MarkerOf(n) == loadingKey # NoPromise /\ loadingKey[1] = n

\* C25: once an in-flight lazy load has settled, fulfilled or rejected, the
\* record's in-flight marker for the relationship is removed, so that no
\* access is handed the promise of a load that had already settled; for
\* loads started by the suspending getter and by load().
C25_MarkerRemovedOnSettle ==
    /\ \A n \in 1..Len(loads) : SettledAndReacted(n) => ~MarkerOf(n)
    /\ (lastAccess # << >> /\ lastAccess[1].outcome \in {"raise", "await"}
            /\ ~lastAccess[1].started) =>
           lastAccess[1].promise[1] \in lastAccess[1].runningBefore

\* The same for the loads started by load() and by refresh() only: the try
\* and the catch block of load() both delete the marker.
C25_MarkerRemovedByLoad ==
    \A n \in 1..Len(loads) :
        (loads[n].by # "suspense" /\ SettledAndReacted(n)) => ~MarkerOf(n)

\* And for the loads of the getter that fulfilled.
C25_MarkerRemovedOnFulfil ==
    \A n \in 1..Len(loads) :
        (loads[n].state = "fulfilled" /\ SettledAndReacted(n)) => ~MarkerOf(n)


\* --------------------------------------------------------------- C26
\* The non-null records held in the slots that the k-th eagerLoadFor call
\* left on the models it was given, one-to-many lists flattened.
RECURSIVE HeldBy(_, _)
HeldBy(models, loaded) ==
    IF models = << >> THEN << >>
    ELSE LET v == loaded[models[Len(models)]].val
         IN  HeldBy(SubSeq(models, 1, Len(models) - 1), loaded)
                 \o SelectSeq(v, LAMBDA x : x # 0)

\* The loader returned without meeting a name missing from a relationship
\* table, a model class without relationships, or a failing load.
PathLoaded == nested.pc = "done" /\ ~nested.skipped

NoTierEmpty ==
    \A k \in 1..Len(loadCalls) :
        k < segments => HeldBy(loadCalls[k].models, slotsOf[k]) # << >>

RejectedNow(i) ==
    /\ i \in 1..Len(recOps)
    /\ recOps[i].pc = "sent"
    /\ recOps'[i].pc = "failed"

C27_Step ==
    \A i \in 1..MaxRecCalls :
        RejectedNow(i) =>
            /\ recOps'[i].error = "E"
            /\ sentStmts' = sentStmts
            /\ exists' = exists
            /\ orig' = orig
            /\ invalidations' = invalidations
            /\ findCache' = findCache

C27_State ==
    \A i \in 1..Len(recOps) :
        /\ recOps[i].pc = "failed" =>
               /\ recOps[i].stmts = 1
               /\ recOps[i].inval = 0
               /\ recOps[i].error = "E"
        /\ (/\ recOps[i].pc = "queued"
            /\ \A j \in 1..(i - 1) : recOps[j].pc \in {"done", "failed"}) =>
               ENABLED BodyStart(i)

\* C27: when the adapter rejects an insert, update or delete statement with
\* error E, the record operation rejects with that E, the statement has been
\* sent once and is not sent again, the record's existence flag and original
\* snapshot are as before, the result cache is not invalidated, and the next
\* queued write can start.
C27_AdapterRejection == [][C27_Step]_vars /\ []C27_State

\* A rejected write is followed in the queue by a write whose statement was
\* sent after the rejection.
C27_Witness ==
    /\ queueOn
    /\ Len(recOps) = 2
    /\ recOps[1].pc = "failed"
    /\ recOps[2].pc \in {"sent", "done"}
    /\ Len(sentStmts) = 2


\* --------------------------------------------------------------- C28
\* The discriminator values the map has no model for.
Unmapped == {d \in Discriminators : d # "none" /\ d \notin {"a", "b"}}

Markers(sql) == Cardinality({k \in 1..Len(sql) : sql[k] = "?"})

\* The markers written for the k-th where condition: those between the
\* k-th column name and the next AND, LIMIT or OFFSET (or the end).
ClauseStarts(sql) == {k \in 1..Len(sql) : sql[k] \in {"WHERE", "AND"}}

ClauseMarkers(sql, start) ==
    LET ends == {e \in (start + 1)..Len(sql) : sql[e] \in {"AND", "LIMIT", "OFFSET"}}
        stop == IF ends = {} THEN Len(sql) + 1
                ELSE CHOOSE e \in ends : \A f \in ends : e <= f
    IN  Cardinality({k \in start..(stop - 1) : sql[k] = "?"})

\* The start of the k-th clause of a statement.
RECURSIVE NthStart(_, _, _)
NthStart(sql, k, from) ==
    LET first == CHOOSE s \in ClauseStarts(sql) :
                     s >= from /\ \A u \in ClauseStarts(sql) : u >= from => s <= u
    IN  IF k = 1 THEN first ELSE NthStart(sql, k - 1, first + 1)

\* The values the k-th where condition binds.
BoundBy(where) ==
    IF where.operator \in {"IS", "IS NOT"} THEN << >> ELSE where.value.items

RECURSIVE BoundByAll(_)
BoundByAll(wheres) ==
    IF wheres = << >> THEN << >>
    ELSE BoundByAll(SubSeq(wheres, 1, Len(wheres) - 1))
             \o BoundBy(wheres[Len(wheres)])

\* C29: a compiled SELECT or COUNT statement holds as many placeholder
\* markers as it binds values; an IN or NOT IN condition over n values
\* writes n markers and binds its n values in input order; the values are
\* bound in the order of the where conditions, and a SELECT binds the limit
\* and then the offset after them (a COUNT binds neither).
C29_PlaceholdersMatchBindings ==
    compiled # << >> =>
        LET sql == compiled[1].out.sql
            bindings == compiled[1].out.bindings
            wheres == query.wheres
        IN  /\ Markers(sql) = Len(bindings)
            /\ Cardinality(ClauseStarts(sql)) = Len(wheres)
            /\ \A k \in 1..Len(wheres) :
                   ClauseMarkers(sql, NthStart(sql, k, 1)) = Len(BoundBy(wheres[k]))
            /\ bindings =
                   IF compiled[1].kind = "select"
                   THEN BoundByAll(wheres) \o query.limitValue \o query.offsetValue
                   ELSE BoundByAll(wheres)

\* A SELECT over an IN condition of two values followed by an equality, with
\* a limit and an offset, has been compiled.
C29_Witness ==
    /\ compiled # << >>
    /\ compiled[1].kind = "select"
    /\ Len(query.wheres) = 2
    /\ query.wheres[1].operator = "IN"
    /\ query.wheres[1].value.items = <<2, 1>>
    /\ query.wheres[2].operator = "="
    /\ query.limitValue # << >>
    /\ query.offsetValue # << >>
    /\ Len(compiled[1].out.bindings) = 5

\* A COUNT over a NOT IN condition has been compiled for a structure that
\* carries a limit.
C29_CountCompiled ==
    /\ compiled # << >>
    /\ compiled[1].kind = "count"
    /\ Len(query.wheres) > 0
    /\ query.wheres[1].operator = "NOT IN"
    /\ query.limitValue # << >>


\* --------------------------------------------------------------- C30
\* Reader r's cachedSelect returns in this step, the cache consulted.
ReturnsNow(r) ==
    /\ reads'[r] # reads[r]
    /\ reads'[r].pc = "done"
    /\ ~reads'[r].bypass

\* What the same read returns with caching disabled: the backend's answer.
Uncached(stmt) == AdapterQuery(dbTable, stmt)

\* C30: operations issued one at a time and nothing else writing to the
\* backend, every read through cachedSelect with a cache adapter configured
\* returns the rows, in the order, that the same read returns with caching
\* disabled; a row-cache hit is returned only for a statement whose whole
\* predicate is the primary-key equality or membership test.
C30_Step ==
    \A r \in Readers :
        ReturnsNow(r) =>
            /\ reads'[r].rows = Uncached(reads'[r].stmt)
            /\ (reads'[r].fromCache /\ reads'[r].route \in {"rowEq", "rowIn"}) =>
                   reads'[r].stmt.shape \in {"eq", "in"}

C30_SequentialTransparency == [][C30_Step]_vars

\* The part that holds: the reads answered through the query-level cache.
C30_QueryStep ==
    \A r \in Readers :
        (ReturnsNow(r) /\ reads'[r].route = "query") =>
            reads'[r].rows = Uncached(reads'[r].stmt)

C30_QueryLevelTransparent == [][C30_QueryStep]_vars

\* The primary-key equality alone: stale only through the row cache that a
\* write leaves behind.
C30_EqStep ==
    \A r \in Readers :
        (ReturnsNow(r) /\ reads'[r].stmt.shape = "eq") =>
            reads'[r].rows = Uncached(reads'[r].stmt)

C30_EqualityTransparent == [][C30_EqStep]_vars

\* The membership test over ids listed in backend order, no write made.
C30_InStep ==
    \A r \in Readers :
        (ReturnsNow(r) /\ reads'[r].stmt.shape = "in" /\ writesMade = 0
             /\ reads'[r].stmt.ids[1] < reads'[r].stmt.ids[2]) =>
            reads'[r].rows = Uncached(reads'[r].stmt)

C30_MembershipInOrderTransparent == [][C30_InStep]_vars

\* --------------------------------------------------------------- C31
\* Every read and write has settled.
AllSettled == NothingInFlight

\* The query-level entries hold what their statement selects now.
QueryEntriesFresh ==
    \A stmt \in Statements :
        LET i == IndexOf(cache, MakeCacheKey(stmt))
        IN  i # 0 => cache[i].value = AdapterQuery(dbTable, stmt)

\* The row-level entries hold the rows as they are now.
RowEntriesFresh ==
    \A t \in DOMAIN rowCache : \A id \in DOMAIN rowCache[t] :
        rowCache[t][id] = Row(dbTable, t, id)

\* C31: in every interleaving of reads and writes, once all operations have
\* settled, every query-level and row-level entry of the cache holds the
\* rows the backend holds after the last completed write: a read whose
\* adapter call was issued before a write completed leaves no pre-write
\* rows behind.
C31_NoStaleAfterRace == AllSettled => (QueryEntriesFresh /\ RowEntriesFresh)

\* The query-level entries alone, which a sequential write always clears.
C31_NoStaleQueryEntries == AllSettled => QueryEntriesFresh

\* --------------------------------------------------------------- C32
\* Task t's transaction() call issues adapter.beginTransaction() in this step.
BeginsNow(t) ==
    /\ Len(txStack'[t]) = Len(txStack[t]) + 1
    /\ txStack'[t][Len(txStack'[t])].pc = "beginning"

Opening == {t \in Tasks : Depth(t) > 0 /\ Top(t).pc = "beginning"}

\* Task t's callback writes in this step.
WritesNow(t) ==
    /\ Depth(t) > 0
    /\ Len(txStack'[t]) = Len(txStack[t])
    /\ txStack'[t][Depth(t)].writes # Top(t).writes

C32_Step ==
    \A t \in Tasks :
        /\ BeginsNow(t) => (~inTransactionFlag /\ Opening = {})
        /\ WritesNow(t) => inTransactionFlag

C32_State ==
    \A i \in 1..Len(txDone) :
        txDone[i].cb[1] = "err" => txDone[i].writes \cap dbRows = {}

\* C32: when transaction() calls of two tasks overlap, beginTransaction is
\* never issued while a transaction is open or being opened, every write of
\* a callback executes while a transaction is open, and a callback that
\* throws has all of its writes rolled back.
C32_OverlapIsolated == [][C32_Step]_vars /\ []C32_State

\* The begin half alone, and the write half alone.
C32_BeginStep == \A t \in Tasks : BeginsNow(t) => Opening = {}

C32_NoDoubleBegin == [][C32_BeginStep]_vars

C32_WriteStep == \A t \in Tasks : WritesNow(t) => inTransactionFlag

C32_WritesInsideTransaction == [][C32_WriteStep]_vars

\* --------------------------------------------------------------- C33
\* A statement is sent to the adapter in this step.
SentNow == Len(sentStmts') = Len(sentStmts) + 1

C33_Step ==
    SentNow =>
        LET stmt == sentStmts'[Len(sentStmts')]
        IN  /\ stmt.kind = "insert" => ~exists
            /\ stmt.kind \in {"update", "delete"} => exists

\* The INSERT statements the backend accepted for the record.
InsertsDone ==
    Cardinality({i \in 1..Len(recOps) :
                     recOps[i].kind = "insert" /\ recOps[i].pc = "done"})

\* C33: the statement sent for a record matches the record's existence flag
\* at the moment it is sent (no INSERT while the flag is true, no UPDATE or
\* DELETE while it is false), however save(), update() and delete() calls on
\* the record overlap, with or without the write queue; overlapping save()
\* calls on a new record insert one row.
C33_StatementMatchesFlag ==
    [][C33_Step]_vars /\ [](recPc = "new" => InsertsDone <= 1)

\* The first half with the write queue on, and the second half alone.
C33_QueuedStep == (queueOn /\ SentNow) => C33_Step

C33_QueuedStatementMatchesFlag == [][C33_QueuedStep]_vars

C33_OneInsert == recPc = "new" => InsertsDone <= 1

\* --------------------------------------------------------------- C34
\* The adapter accepts the statement of the i-th write, an INSERT or an
\* UPDATE, in this step.
AcceptedNow(i) ==
    /\ i \in 1..Len(recOps)
    /\ recOps[i].pc = "sent"
    /\ recOps'[i].pc = "done"
    /\ recOps[i].kind \in {"insert", "update"}

\* C34: a record's original snapshot takes only values that were sent to the
\* backend: when a save completes, every attribute whose value differs from
\* the snapshot as it was (one assigned while the save was queued or
\* awaiting the adapter included) either went out with that value in the
\* statement or is still reported dirty.
C34_Step ==
    \A i \in 1..MaxRecCalls :
        AcceptedNow(i) =>
            \A f \in UserFields :
                Val(attrs', f) # Val(orig, f) =>
                    \/ f \in DOMAIN recOps[i].data
                           /\ recOps[i].data[f] = Val(attrs', f)
                    \/ Val(attrs', f) # Val(orig', f)

C34_SnapshotOnlySent == [][C34_Step]_vars

\* The same for the writes nothing overlapped: no assignment and no other
\* call between the call and its completion.
C34_QuietStep ==
    \A i \in 1..MaxRecCalls :
        (AcceptedNow(i) /\ recOps[i].quiet) =>
            \A f \in UserFields :
                Val(attrs', f) # Val(orig, f) =>
                    \/ f \in DOMAIN recOps[i].data
                           /\ recOps[i].data[f] = Val(attrs', f)
                    \/ Val(attrs', f) # Val(orig', f)

C34_QuietSnapshotOnlySent == [][C34_QuietStep]_vars

\* C35: once update() of the record has completed and every load has settled,
\* the relationship's slot is unloaded or holds the answer of a load that was
\* started after the update completed, never that of a load the update found
\* in flight.
UpdateCompleted == lastReturn # << >> /\ lastReturn[1].op = "update"

C35_NoRepopulationAfterUpdate ==
    (UpdateCompleted /\ Running = {})
        => slot = 0 \/ slot \notin lastReturn[1].inFlight

\* C36: eagerLoadFor, whatever the variant and the backend's answer, changes
\* nothing of a parent but its private relationship slot: the attributes the
\* parent was hydrated with keep their values and no attribute is added, so
\* a freshly hydrated parent has no dirty attribute afterwards.
AttributesOf(p) == [key |-> p.key, type |-> p.type, added |-> p.prop]

C36_Step ==
    /\ Len(parents') = Len(parents)
    /\ \A i \in 1..Len(parents) :
           AttributesOf(parents'[i]) = AttributesOf(parents[i])

C36_OnlySlotModified == [][C36_Step]_vars

\* C36 for the variants that read no pivot table
C36_DirectStep == eager'.variant # "belongsToMany" => C36_Step

C36_DirectVariantsOnlySlot == [][C36_DirectStep]_vars

\* C37: for a one-to-one relationship, the record HasOne.get returns for a
\* parent is the record eagerLoadFor stored in that parent's slot, whatever
\* rows the backend holds, several rows with the parent's key included.
OneToOneLoaded ==
    /\ eager.variant = "hasOne" /\ eager.pc = "done"
    /\ lazyOne # << >>

C37_EagerMatchesLazy ==
    OneToOneLoaded => lazyOne[1].value = parents[lazyOne[1].parent].value

\* C37 for backends holding at most one related row per parent key
AtMostOnePerKey ==
    \A k \in Keys : Len(SelectIn(relDb["a"], "fk", <<k>>)) <= 1

C37_EagerMatchesLazyOnUniqueKeys ==
    (OneToOneLoaded /\ AtMostOnePerKey)
        => lazyOne[1].value = parents[lazyOne[1].parent].value

\* C38: when get() was given both 'a' and 'a.b' through with(), in either
\* order, and both relationships exist and have related records, the records
\* it returns hold in their a slots records with b loaded.
BothNamesGiven ==
    /\ withQ.pc = "done" /\ withQ.status = "ok"
    /\ rootCount = 1 /\ related[0]
    /\ Known(0, "a") /\ Known(1, "b")
    /\ {<<"a">>, <<"a", "b">>} \subseteq Range(withList)

C38_OrderIndependent == BothNamesGiven => <<"a", "b">> \in withQ.paths

\* C38 for with('a', 'a.b'): the nested name given after its first segment
C38_ParentNamedFirst ==
    (BothNamesGiven /\ withList[1] = <<"a">>) => <<"a", "b">> \in withQ.paths

\* C39: a record hydrated from a cached result shares no object with the
\* cache.  Whatever is assigned on returned records, the rows the cache holds
\* keep the values the backend answered with, and the records a later read
\* hydrates from the cache carry those values in their attributes and in
\* their original snapshot.
Contents(refs) == [i \in 1..Len(refs) |-> heap[refs[i]]]

CacheIntact == cacheEntry # << >> => Contents(cacheEntry[1]) = backendAnswer

ServedFromCacheNow ==
    /\ Len(returned') = Len(returned) + 1
    /\ returned'[Len(returned')].fromCache

C39_Step ==
    ServedFromCacheNow =>
        LET models == returned'[Len(returned')].models
        IN  /\ [i \in 1..Len(models) |-> heap'[models[i].attributes]]
                   = backendAnswer
            /\ [i \in 1..Len(models) |-> heap'[models[i].original]]
                   = backendAnswer

C39_NoAliasing == []CacheIntact /\ [][C39_Step]_vars

\* a record was assigned a value the backend did not answer with, and a later
\* read was served from the cache
C39_Witness ==
    /\ Len(returned) = MaxGets
    /\ returned[MaxGets].fromCache
    /\ assignsMade > 0
    /\ returned[1].models # << >>
    /\ heap[returned[1].models[1].attributes] # backendAnswer[1]
    /\ heap[returned[MaxGets].models[1].attributes] = backendAnswer[1]

\* C40: with the write queue enabled, every operation submitted through
\* queueWrite eventually starts executing and its caller's promise eventually
\* settles, whatever earlier operations did, failures included.
Started(k) == k \in Range(startOrder)

C40_EveryOperationRuns ==
    \A k \in Ops :
        /\ (enableWriteQueue /\ opState[k] = "waiting") ~> Started(k)
        /\ (enableWriteQueue /\ opState[k] = "waiting") ~> (opState[k] \in Settled)

\* an operation started and settled although the one queued before it failed
C40_Witness ==
    /\ enableWriteQueue
    /\ opState[NumOps - 1] = "rejected"
    /\ opChain[NumOps] = NumOps - 1
    /\ Started(NumOps)
    /\ opState[NumOps] \in Settled

====
